---- MODULE Spec2Model ----
(***************************************************************************)
(* A model of grafana-git-sync: the folder graph builder and the change    *)
(* detector of pkg/sync, the folder reconciler and uploader of pkg/grafana,*)
(* and the poll loop of cmd/grafana-git-sync.                              *)
(*                                                                         *)
(* Strings that the code splits, joins or compares by content are          *)
(* sequences of one-character strings: "a/b" is <<"a", "/", "b">>.         *)
(***************************************************************************)
EXTENDS Integers, Sequences, FiniteSets, TLC

VARIABLES
    dashboardPaths,   \* BuildFolderGraph's argument of the latest call
    folderGraph,      \* the forest BuildFolderGraph returned
    graphBuilt        \* whether BuildFolderGraph has returned

graphVars == <<dashboardPaths, folderGraph, graphBuilt>>

VARIABLES
    fileHashes,       \* Service.fileHashes: file path -> hex digest
    hashCalls         \* the HasFileChanged calls so far: path, content, result

hashVars == <<fileHashes, hashCalls>>

VARIABLES
    remote,           \* the server's folders, in the order it lists them
    nextID,           \* the id the server gives the next folder it creates
    rejectsDuplicates,\* whether the server refuses a title its parent already holds
    extLeft,          \* folder changes other clients of the server may still make
    faults            \* the requests and file operations that may still fail

serverVars == <<remote, nextID, rejectsDuplicates, extLeft, faults>>

VARIABLES
    folders,          \* Client.folders: folder path -> folder id
    pending,          \* the CreateFolderTreeFromNode calls still to be made, in call order
    recPhase,         \* the request the call at the head of pending makes next
    recRoot,          \* the node the caller passed to CreateFolderTreeFromNode
    recRet,           \* what that call returned: "none" while it runs
    reqLog            \* the requests sent to the server in this run

clientVars == <<folders, pending, recPhase, recRoot, recRet, reqLog>>

VARIABLES
    run,              \* which run over the forest roots is under way
    called,           \* the roots CreateFolderTreeFromNode was called for in this run
    results,          \* what it returned for each of them
    firstRun,         \* the outcome of the first run, kept for comparison
    lookups           \* the calls of GetFolderIDByPath, each with what it returned

VARIABLES
    mu,               \* the Checker's RWMutex: how many read locks are held
    getPc,            \* where the health responder stands in GetStatus
    getSt,            \* the locals of the GetStatus call under way
    served            \* the Status the latest GetStatus call returned

responderVars == <<mu, getPc, getSt, served>>

VARIABLES
    env,              \* the process environment: variable name -> value, "" when unset
    cfg,              \* the Config at hand
    cfgRet            \* the call made with that Config, and what it returned

configVars == <<env, cfg, cfgRet>>

VARIABLES
    byTitle           \* the getFolderByTitle call made on its own: the server's response,
                      \* the arguments and what it returned

VARIABLES
    uploadCall        \* the UploadDashboardWithVersion call made on its own: the
                      \* arguments, the server's answer, the request sent and the error

VARIABLES
    peer              \* a second sync process on the same server: the reconciler
                      \* state of the process that is not running now

VARIABLES
    chainRun          \* the server at the start, and what CreateFolderTreeFromNode
                      \* left behind, kept to compare createFolderRecursive with

soloVars == <<byTitle, uploadCall, peer, chainRun>>

driverVars == <<run, called, results, firstRun, lookups, responderVars, configVars, soloVars>>

VARIABLES
    repo,             \* the clone: the commit at HEAD and the dashboard files it holds
    lastCommit,       \* main's lastCommit
    commit,           \* the commit id the latest fetch returned
    pc,               \* where the poll loop stands
    dashboardsDir,    \* the files of the dashboards directory: path -> content
    allFiles,         \* what CopyDashboards returned in this pass
    changedFiles,     \* what GetChangedFiles returned in this pass
    upIdx,            \* the upload loop's position in changedFiles
    od,               \* the locals of the createFolderRecursive call under way
    folderID,         \* the folder id resolved for the dashboard being uploaded
    health,           \* the health Checker's fields
    lastPass          \* what the latest sync pass that came to its end did

loopVars == <<repo, lastCommit, commit, pc, dashboardsDir, allFiles, changedFiles,
              upIdx, od, folderID, health, lastPass>>

vars == <<graphVars, hashVars, serverVars, clientVars, driverVars, loopVars>>

----------------------------------------------------------------------------
(* Sequences and strings                                                   *)

Range(s) == {s[i] : i \in 1..Len(s)}

SeqsUpTo(S, n) == UNION {[1..k -> S] : k \in 0..n}

\* strings.Join(parts, sep)
RECURSIVE Join(_, _)
Join(parts, sep) ==
    IF parts = <<>> THEN <<>>
    ELSE IF Len(parts) = 1 THEN parts[1]
    ELSE parts[1] \o sep \o Join(Tail(parts), sep)

\* strings.Split(s, sep) for a one-character sep: n separators give n+1 parts,
\* empty parts included.
RECURSIVE SplitFrom(_, _, _)
SplitFrom(s, sep, cur) ==
    IF s = <<>> THEN <<cur>>
    ELSE IF Head(s) = sep THEN <<cur>> \o SplitFrom(Tail(s), sep, <<>>)
    ELSE SplitFrom(Tail(s), sep, Append(cur, Head(s)))

Split(s, sep) == SplitFrom(s, sep, <<>>)

Contains(s, c) == \E i \in 1..Len(s) : s[i] = c

----------------------------------------------------------------------------
(* Paths (path/filepath on a '/'-separated platform), for the clean        *)
(* absolute paths that filepath.Walk and filepath.Join produce             *)

Slash == <<"/">>
Dot == <<".">>
DotDot == <<".", ".">>

LastIndexOf(s, c) ==
    IF Contains(s, c) THEN CHOOSE i \in 1..Len(s) :
                                /\ s[i] = c
                                /\ \A j \in (i + 1)..Len(s) : s[j] # c
    ELSE 0

\* filepath.Dir: the path without its last element; "/" for a file of the root
Dir(path) ==
    LET i == LastIndexOf(path, "/")
    IN  IF i = 0 THEN Dot
        ELSE IF i = 1 THEN Slash
        ELSE SubSeq(path, 1, i - 1)

\* the elements of a clean path
Elements(path) == SelectSeq(Split(path, "/"), LAMBDA e : e # <<>>)

RECURSIVE CommonPrefixLen(_, _)
CommonPrefixLen(a, b) ==
    IF a = <<>> \/ b = <<>> \/ Head(a) # Head(b) THEN 0
    ELSE 1 + CommonPrefixLen(Tail(a), Tail(b))

\* filepath.Rel(basepath, targpath): "." when they are the same, else one
\* ".." per element of basepath below the common prefix, then the rest of
\* targpath
Rel(basepath, targpath) ==
    LET bs == Elements(basepath)
        ts == Elements(targpath)
        c == CommonPrefixLen(bs, ts)
        ups == [i \in 1..(Len(bs) - c) |-> DotDot]
        rest == SubSeq(ts, c + 1, Len(ts))
    IN  IF bs = ts THEN Dot ELSE Join(ups \o rest, Slash)

\* filepath.ToSlash: the separator is already '/'
ToSlash(path) == path

----------------------------------------------------------------------------
(* pkg/sync: FolderNode and BuildFolderGraph                               *)
(*                                                                         *)
(* A *FolderNode is an address into graph.nodes; graph.index is the Go map *)
(* from full path to *FolderNode.                                          *)

FolderNode(name, fullPath) ==
    [Name |-> name, FullPath |-> fullPath, Children |-> <<>>, UID |-> "", ID |-> 0]

EmptyGraph == [nodes |-> <<>>, index |-> [p \in {} |-> 0]]

\* GraphAddPart without the check for a child already listed
GraphAddPartNoCheck(graph, parts, i) ==
    LET currPath == Join(SubSeq(parts, 1, i), Slash)
        g1 == IF currPath \in DOMAIN graph.index THEN graph
              ELSE [nodes |-> Append(graph.nodes, FolderNode(parts[i], currPath)),
                    index |-> graph.index @@ (currPath :> (Len(graph.nodes) + 1))]
        parent == g1.index[Join(SubSeq(parts, 1, i - 1), Slash)]
    IN  IF i > 1
        THEN [g1 EXCEPT !.nodes[parent].Children = Append(@, g1.index[currPath])]
        ELSE g1

\* GraphAddPart that links every folder below the first to the first one
GraphAddPartUnderRoot(graph, parts, i) ==
    LET currPath == Join(SubSeq(parts, 1, i), Slash)
        g1 == IF currPath \in DOMAIN graph.index THEN graph
              ELSE [nodes |-> Append(graph.nodes, FolderNode(parts[i], currPath)),
                    index |-> graph.index @@ (currPath :> (Len(graph.nodes) + 1))]
        curr == g1.index[currPath]
        parent == g1.index[parts[1]]
        found == \E k \in 1..Len(g1.nodes[parent].Children) :
                     g1.nodes[parent].Children[k] = curr
    IN  IF i > 1 /\ ~found
        THEN [g1 EXCEPT !.nodes[parent].Children = Append(@, curr)]
        ELSE g1

\* one iteration of the inner loop: parts[:i]
GraphAddPart(graph, parts, i) ==
    LET currPath == Join(SubSeq(parts, 1, i), Slash)
        g1 == IF currPath \in DOMAIN graph.index THEN graph
              ELSE [nodes |-> Append(graph.nodes, FolderNode(parts[i], currPath)),
                    index |-> graph.index @@ (currPath :> (Len(graph.nodes) + 1))]
        curr == g1.index[currPath]
        parentPath == Join(SubSeq(parts, 1, i - 1), Slash)
        parent == g1.index[parentPath]
        found == \E k \in 1..Len(g1.nodes[parent].Children) :
                     g1.nodes[parent].Children[k] = curr
    IN  IF i > 1 /\ ~found
        THEN [g1 EXCEPT !.nodes[parent].Children = Append(@, curr)]
        ELSE g1

RECURSIVE GraphAddParts(_, _, _)
GraphAddParts(graph, parts, i) ==
    IF i > Len(parts) THEN graph
    ELSE GraphAddParts(GraphAddPart(graph, parts, i), parts, i + 1)

\* one iteration of the outer loop
GraphAddPath(graph, path, baseDir) ==
    LET rel == ToSlash(Rel(baseDir, Dir(path)))
    IN  IF rel = Dot \/ rel = <<>> THEN graph
        ELSE GraphAddParts(graph, Split(rel, "/"), 1)

RECURSIVE GraphAddPaths(_, _, _)
GraphAddPaths(graph, paths, baseDir) ==
    IF paths = <<>> THEN graph
    ELSE GraphAddPaths(GraphAddPath(graph, Head(paths), baseDir), Tail(paths), baseDir)

BuildFolderGraph(dashPaths, baseDir) == GraphAddPaths(EmptyGraph, dashPaths, baseDir)

\* the *FolderNode values of the map
GraphNodes(graph) == {graph.index[p] : p \in DOMAIN graph.index}

\* HasParent that compares folder names, not node identity
HasParentByName(node, graph) ==
    \E n \in GraphNodes(graph) :
        \E k \in 1..Len(graph.nodes[n].Children) :
            graph.nodes[graph.nodes[n].Children[k]].Name = graph.nodes[node].Name

HasParent(node, graph) ==
    \E n \in GraphNodes(graph) :
        \E k \in 1..Len(graph.nodes[n].Children) : graph.nodes[n].Children[k] = node


----------------------------------------------------------------------------
(* pkg/sync: the change detector                                           *)

NoEntries == [p \in {} |-> 0]

\* sha256.Sum256 in hex: one digest per content, no two contents sharing one
computeFileHash(content) == <<"sha256", content>>

\* HasFileChanged that records a digest only for a path it has never seen
HasFileChangedFirstOnly(hashes, path, content) ==
    LET newHash == computeFileHash(content)
    IN  IF path \notin DOMAIN hashes
        THEN [ret |-> TRUE, fileHashes |-> (path :> newHash) @@ hashes]
        ELSE [ret |-> hashes[path] # newHash, fileHashes |-> hashes]

\* HasFileChanged that compares and never records
HasFileChangedNoStore(hashes, path, content) ==
    LET newHash == computeFileHash(content)
    IN  [ret |-> path \notin DOMAIN hashes \/ hashes[path] # newHash, fileHashes |-> hashes]

\* HasFileChanged that keeps the entry of the path it was called for and no
\* other
HasFileChangedDropsOthers(hashes, path, content) ==
    LET newHash == computeFileHash(content)
        exists == path \in DOMAIN hashes
    IN  IF ~exists \/ hashes[path] # newHash
        THEN [ret |-> TRUE, fileHashes |-> (path :> newHash)]
        ELSE [ret |-> FALSE, fileHashes |-> hashes]

\* HasFileChanged that reports every file as changed
HasFileChangedAlways(hashes, path, content) ==
    [ret |-> TRUE, fileHashes |-> (path :> computeFileHash(content)) @@ hashes]

\* HasFileChanged(path, content) on the table hashes: what it returns and the
\* table it leaves
HasFileChanged(hashes, path, content) ==
    LET newHash == computeFileHash(content)
        exists == path \in DOMAIN hashes
    IN  IF ~exists \/ hashes[path] # newHash
        THEN [ret |-> TRUE, fileHashes |-> (path :> newHash) @@ hashes]
        ELSE [ret |-> FALSE, fileHashes |-> hashes]

HashIdle ==
    /\ fileHashes = NoEntries
    /\ hashCalls = <<>>


----------------------------------------------------------------------------
(* The Grafana folder API, as the client uses it                           *)

MaxID == 4

UidOf(id) == "uid" \o ToString(id)

RemoteFolder(id, title, parentUid) ==
    [id |-> id, uid |-> UidOf(id), title |-> title, parentUid |-> parentUid]

RemoteUids(rem) == {rem[i].uid : i \in 1..Len(rem)}
RemoteIds(rem) == {rem[i].id : i \in 1..Len(rem)}

HoldsFolder(rem, title, parentUid) ==
    \E i \in 1..Len(rem) : rem[i].title = title /\ rem[i].parentUid = parentUid

\* a request or file operation may fail only while the fault budget lasts;
\* the budget is spent by each failure
NoFaultLimit == [limited |-> FALSE, left |-> 0]

MayFail(isFault) == isFault => (~faults.limited \/ faults.left > 0)

Spend(isFault) ==
    faults' = IF isFault /\ faults.limited THEN [faults EXCEPT !.left = @ - 1] ELSE faults

TransportFault(status) == status = 0 \/ status = 500

\* GET /api/folders[?parentUid=...]: no answer (status 0), an error status,
\* or the folders directly under the parent
ListResponses(rem, parentUid) ==
    { [status |-> 0, folders |-> <<>>],
      [status |-> 500, folders |-> <<>>],
      [status |-> 200, folders |-> SelectSeq(rem, LAMBDA f : f.parentUid = parentUid)] }

\* POST /api/folders: what the client gets back and the folders the server
\* then holds. A request may be lost on the way (status 0, nothing created), or
\* its answer may be (status 0, the folder created).
CreateOutcomes(rem, nid, rejects, title, parentUid) ==
    LET same(st) == [status |-> st, id |-> 0, uid |-> "", remote |-> rem, nextID |-> nid]
        made(st) == [status |-> st, id |-> nid, uid |-> UidOf(nid),
                     remote |-> Append(rem, RemoteFolder(nid, title, parentUid)),
                     nextID |-> nid + 1]
    IN  {same(0), same(500)} \cup
        (IF parentUid # "" /\ parentUid \notin RemoteUids(rem) THEN {same(404)}
         ELSE IF rejects /\ HoldsFolder(rem, title, parentUid) THEN {same(409), same(412)}
         ELSE IF nid > MaxID THEN {}
         ELSE {made(200), [made(200) EXCEPT !.status = 0, !.id = 0, !.uid = ""]})

\* a folder and the folders below it
RECURSIVE Subtree(_, _)
Subtree(rem, uids) ==
    LET below == {rem[i].uid : i \in {j \in 1..Len(rem) : rem[j].parentUid \in uids}}
    IN  IF below \subseteq uids THEN uids ELSE Subtree(rem, uids \cup below)

\* another client of the server creates a folder
OtherClientCreates ==
    /\ extLeft > 0
    /\ nextID <= MaxID
    /\ \E title \in {folderGraph.nodes[n].Name : n \in GraphNodes(folderGraph)},
          parentUid \in {""} \cup RemoteUids(remote) :
          /\ ~HoldsFolder(remote, title, parentUid)
          /\ remote' = Append(remote, RemoteFolder(nextID, title, parentUid))
    /\ nextID' = nextID + 1
    /\ extLeft' = extLeft - 1
    /\ UNCHANGED <<rejectsDuplicates, faults>>

\* another client of the server deletes a folder, and with it the folders below
OtherClientDeletes ==
    /\ extLeft > 0
    /\ \E i \in 1..Len(remote) :
          remote' = SelectSeq(remote, LAMBDA f : f.uid \notin Subtree(remote, {remote[i].uid}))
    /\ extLeft' = extLeft - 1
    /\ UNCHANGED <<nextID, rejectsDuplicates, faults>>

----------------------------------------------------------------------------
(* pkg/grafana: the folder reconciler                                      *)

NotFound == [id |-> 0, uid |-> "", err |-> FALSE]
Failed == [id |-> 0, uid |-> "", err |-> TRUE]

\* getFolderByTitle that takes the first folder with the title, whatever its parent
getFolderByTitleAnyParent(resp, title, parentUid) ==
    IF resp.status = 0 THEN Failed
    ELSE IF resp.status # 200 THEN Failed
    ELSE LET m == {i \in 1..Len(resp.folders) : resp.folders[i].title = title}
         IN  IF m = {} THEN NotFound
             ELSE LET i == CHOOSE j \in m : \A k \in m : j <= k
                  IN  [id |-> resp.folders[i].id, uid |-> resp.folders[i].uid, err |-> FALSE]

\* the folders of a response that getFolderByTitle accepts
TitleMatches(fs, title, parentUid) ==
    {i \in 1..Len(fs) :
        /\ fs[i].title = title
        /\ \/ parentUid = "" /\ fs[i].parentUid = ""
           \/ parentUid # "" /\ fs[i].parentUid = parentUid}

\* getFolderByTitle, given the server's response
getFolderByTitle(resp, title, parentUid) ==
    IF resp.status = 0 THEN Failed
    ELSE IF resp.status # 200 THEN Failed
    ELSE LET m == TitleMatches(resp.folders, title, parentUid)
         IN  IF m = {} THEN NotFound
             ELSE LET i == CHOOSE j \in m : \A k \in m : j <= k
                  IN  [id |-> resp.folders[i].id, uid |-> resp.folders[i].uid, err |-> FALSE]

\* a request as the log keeps it: what was asked and what came back
Request(op, path, parentUid, result, id) ==
    [op |-> op, path |-> path, parentUid |-> parentUid, result |-> result, id |-> id]

RecCall == Head(pending)
RecNode == folderGraph.nodes[RecCall.node]

RecLog(op, result, id) ==
    reqLog' = Append(reqLog, Request(op, RecNode.FullPath, RecCall.parentUid, result, id))

\* RecFail that gives up the node only and goes on with the calls that wait
RecFailSkipsNode ==
    /\ pending' = Tail(pending)
    /\ recPhase' = IF Tail(pending) = <<>> THEN "idle" ELSE "query"
    /\ recRet' = IF Tail(pending) = <<>> THEN "err" ELSE "none"
    /\ UNCHANGED <<folderGraph, folders>>

\* CreateFolderTreeFromNode returns an error: every call above it returns it too
RecFail ==
    /\ pending' = <<>>
    /\ recPhase' = "idle"
    /\ recRet' = "err"
    /\ UNCHANGED <<folderGraph, folders>>

\* ChildCalls that passes no parent on: every child is treated as a root
ChildCallsNoParent(node, uid) ==
    [k \in 1..Len(node.Children) |-> [node |-> node.Children[k], parentUid |-> ""]]

\* the calls for a node's children, each with the node's uid as its parent
ChildCalls(node, uid) ==
    [k \in 1..Len(node.Children) |-> [node |-> node.Children[k], parentUid |-> uid]]

\* the node takes the folder's id and uid, the cache its id, and the calls for
\* the node's children come next
RecAdopt(id, uid) ==
    LET rest == ChildCalls(RecNode, uid) \o Tail(pending)
    IN  /\ folderGraph' = [folderGraph EXCEPT !.nodes[RecCall.node].ID = id,
                                              !.nodes[RecCall.node].UID = uid]
        /\ folders' = (RecNode.FullPath :> id) @@ folders
        /\ pending' = rest
        /\ recPhase' = IF rest = <<>> THEN "idle" ELSE "query"
        /\ recRet' = IF rest = <<>> THEN "ok" ELSE "none"

\* RecQuery that takes every folder for missing and goes on to create it
RecQueryNoReuse ==
    /\ recPhase = "query"
    /\ \E resp \in ListResponses(remote, RecCall.parentUid) :
          /\ MayFail(TransportFault(resp.status))
          /\ Spend(TransportFault(resp.status))
          /\ LET existing == getFolderByTitle(resp, RecNode.Name, RecCall.parentUid)
             IN  IF existing.err THEN RecFail /\ RecLog("query", "error", 0)
                 ELSE /\ RecLog("query", "notfound", 0)
                      /\ recPhase' = "create"
                      /\ UNCHANGED <<folderGraph, folders, pending, recRet>>
    /\ UNCHANGED <<remote, nextID>>

\* the existence check that opens CreateFolderTreeFromNode
RecQuery ==
    /\ recPhase = "query"
    /\ \E resp \in ListResponses(remote, RecCall.parentUid) :
          /\ MayFail(TransportFault(resp.status))
          /\ Spend(TransportFault(resp.status))
          /\ LET existing == getFolderByTitle(resp, RecNode.Name, RecCall.parentUid)
             IN  IF existing.err THEN RecFail /\ RecLog("query", "error", 0)
                 ELSE IF existing.id > 0
                      THEN RecAdopt(existing.id, existing.uid)
                           /\ RecLog("query", "found", existing.id)
                 ELSE /\ RecLog("query", "notfound", 0)
                      /\ recPhase' = "create"
                      /\ UNCHANGED <<folderGraph, folders, pending, recRet>>
    /\ UNCHANGED <<remote, nextID>>

\* the create request
RecCreate ==
    /\ recPhase = "create"
    /\ \E out \in CreateOutcomes(remote, nextID, rejectsDuplicates,
                                 RecNode.Name, RecCall.parentUid) :
          /\ MayFail(TransportFault(out.status))
          /\ Spend(TransportFault(out.status))
          /\ remote' = out.remote
          /\ nextID' = out.nextID
          /\ IF out.status = 0 THEN RecFail /\ RecLog("create", "error", 0)
             ELSE IF out.status >= 300
                  THEN IF out.status = 409 \/ out.status = 412
                       THEN /\ RecLog("create", "conflict", 0)
                            /\ recPhase' = "requery"
                            /\ UNCHANGED <<folderGraph, folders, pending, recRet>>
                       ELSE RecFail /\ RecLog("create", "error", 0)
             ELSE RecAdopt(out.id, out.uid) /\ RecLog("create", "created", out.id)

\* RecRequery that leaves the cache as it was
RecRequeryNoCache ==
    /\ recPhase = "requery"
    /\ \E resp \in ListResponses(remote, RecCall.parentUid) :
          /\ MayFail(TransportFault(resp.status))
          /\ Spend(TransportFault(resp.status))
          /\ LET existing == getFolderByTitle(resp, RecNode.Name, RecCall.parentUid)
                 rest == ChildCalls(RecNode, existing.uid) \o Tail(pending)
             IN  IF existing.err \/ existing.id = 0
                 THEN RecFail /\ RecLog("query", IF existing.err THEN "error" ELSE "notfound", 0)
                 ELSE /\ folderGraph' = [folderGraph EXCEPT
                                            !.nodes[RecCall.node].ID = existing.id,
                                            !.nodes[RecCall.node].UID = existing.uid]
                      /\ pending' = rest
                      /\ recPhase' = IF rest = <<>> THEN "idle" ELSE "query"
                      /\ recRet' = IF rest = <<>> THEN "ok" ELSE "none"
                      /\ UNCHANGED folders
                      /\ RecLog("query", "found", existing.id)
    /\ UNCHANGED <<remote, nextID>>

\* the existence check after a conflict
RecRequery ==
    /\ recPhase = "requery"
    /\ \E resp \in ListResponses(remote, RecCall.parentUid) :
          /\ MayFail(TransportFault(resp.status))
          /\ Spend(TransportFault(resp.status))
          /\ LET existing == getFolderByTitle(resp, RecNode.Name, RecCall.parentUid)
             IN  IF existing.err \/ existing.id = 0
                 THEN RecFail /\ RecLog("query", IF existing.err THEN "error" ELSE "notfound", 0)
                 ELSE RecAdopt(existing.id, existing.uid)
                      /\ RecLog("query", "found", existing.id)
    /\ UNCHANGED <<remote, nextID>>

\* one request of CreateFolderTreeFromNode, and what the client does with the
\* answer
RecStep ==
    /\ \/ RecQuery
       \/ RecCreate
       \/ RecRequery
    /\ UNCHANGED <<rejectsDuplicates, extLeft, recRoot>>

\* the caller passes a node and no parent
RecStart(root) ==
    /\ recPhase = "idle"
    /\ recRet = "none"
    /\ pending' = <<[node |-> root, parentUid |-> ""]>>
    /\ recPhase' = "query"
    /\ recRoot' = root
    /\ UNCHANGED <<folders, recRet, reqLog>>

ClientIdle ==
    /\ folders = NoEntries
    /\ pending = <<>>
    /\ recPhase = "idle"
    /\ recRoot = 0
    /\ recRet = "none"
    /\ reqLog = <<>>

ServerIdle ==
    /\ remote = <<>>
    /\ nextID = 1
    /\ rejectsDuplicates = TRUE
    /\ extLeft = 0
    /\ faults = NoFaultLimit

\* the Status under construction, and the Status of no call
NoStatus ==
    [Status |-> "", GrafanaHealthy |-> FALSE, GitSyncHealthy |-> FALSE,
     LastSyncTime |-> 0, LastError |-> ""]

\* no request to the health endpoint yet
ResponderIdle ==
    /\ mu = 0
    /\ getPc = "idle"
    /\ getSt = NoStatus
    /\ served = NoStatus

\* the environment variables Load reads
EnvNames ==
    {"GIT_REPO_URL", "GIT_BRANCH", "GIT_SSH_KEY", "GIT_HTTPS_USER",
     "GIT_HTTPS_PASS", "GIT_LOCAL_REPO_DIR", "GIT_REPO_SUBDIR", "DASHBOARDS_DIR",
     "GRAFANA_URL", "GF_SECURITY_ADMIN_USER", "GF_SECURITY_ADMIN_PASSWORD", "GF_SECURITY_TOKEN",
     "POLL_INTERVAL_SEC"}

\* an environment with none of them set
NoEnv == [name \in EnvNames |-> <<>>]

\* the zero Config; PollInterval is in seconds
ZeroConfig ==
    [RepoURL |-> <<>>,
     Branch |-> <<>>,
     SSHKey |-> <<>>,
     HTTPSUser |-> <<>>,
     HTTPSPassword |-> <<>>,
     RepoDir |-> <<>>,
     RepoSubdir |-> <<>>,
     DashboardsDir |-> <<>>,
     PollInterval |-> 0,
     GrafanaURL |-> <<>>,
     GrafanaUser |-> <<>>,
     GrafanaPass |-> <<>>,
     GrafanaToken |-> <<>>]

NoCall == [op |-> "none"]

\* no call of pkg/config was made
ConfigIdle ==
    /\ env = NoEnv
    /\ cfg = ZeroConfig
    /\ cfgRet = NoCall

\* getFolderByTitle was not called on its own
NoQuery ==
    [called |-> FALSE, resp |-> [status |-> 0, folders |-> <<>>], title |-> <<>>,
     parentUid |-> "", ret |-> NotFound]

\* UploadDashboardWithVersion was not called on its own
NoUpload ==
    [called |-> FALSE, dashboard |-> "", folderID |-> 0, versionMessage |-> "", status |-> 0,
     requests |-> <<>>, err |-> FALSE]

\* no second process
NoPeer ==
    [id |-> 0, folderGraph |-> [nodes |-> <<>>, index |-> NoEntries], folders |-> NoEntries,
     pending |-> <<>>, recPhase |-> "idle", recRoot |-> 0, recRet |-> "none",
     reqLog |-> <<>>, called |-> {}, results |-> NoEntries]

\* no comparison of the two ways to create a chain
NoChainRun ==
    [done |-> FALSE, start |-> [remote |-> <<>>, nextID |-> 1], remote |-> <<>>,
     nextID |-> 1, folders |-> NoEntries, reqLog |-> <<>>, ret |-> "none"]

CallsIdle ==
    /\ byTitle = NoQuery
    /\ uploadCall = NoUpload
    /\ peer = NoPeer
    /\ chainRun = NoChainRun
    /\ run = "first"
    /\ called = {}
    /\ results = NoEntries
    /\ firstRun = [ok |-> FALSE, nodes |-> <<>>, folders |-> NoEntries, remote |-> <<>>]
    /\ lookups = <<>>
    /\ ResponderIdle

DriverIdle == CallsIdle /\ ConfigIdle

NoOd == [parts |-> <<>>, i |-> 0, currentPath |-> <<>>, currentUID |-> "", folderID |-> 0]

NoPass == [n |-> 0, content |-> NoEntries, read |-> {}, changed |-> <<>>,
           uploads |-> NoEntries, skipped |-> {}, failed |-> {}, folders |-> NoEntries]

\* health.NewChecker()
NewChecker ==
    [grafanaHealthy |-> FALSE, gitSyncHealthy |-> FALSE, lastSyncTime |-> 0, lastError |-> ""]

PassIdle ==
    /\ lastCommit = ""
    /\ commit = ""
    /\ pc = "sleep"
    /\ dashboardsDir = NoEntries
    /\ allFiles = <<>>
    /\ changedFiles = <<>>
    /\ upIdx = 0
    /\ od = NoOd
    /\ folderID = 0
    /\ health = NewChecker
    /\ lastPass = NoPass

LoopIdle == repo = [n |-> 0, files |-> NoEntries] /\ PassIdle

----------------------------------------------------------------------------
(* The graph builder on its own: BuildFolderGraph applied to any list of   *)
(* at most MaxPaths dashboard files of GraphFiles under BaseDir            *)

MaxPaths == 3

\* /d, the dashboards directory
BaseDir == <<"/", "d">>

\* /d/x  /d/a/x  /d/a/b/x  /d/a/b/c/x  /d/b/x  and /e/x outside the directory
GraphFiles ==
    { <<"/", "d", "/", "x">>,
      <<"/", "d", "/", "a", "/", "x">>,
      <<"/", "d", "/", "a", "/", "b", "/", "x">>,
      <<"/", "d", "/", "a", "/", "b", "/", "c", "/", "x">>,
      <<"/", "d", "/", "b", "/", "x">>,
      <<"/", "e", "/", "x">> }

GraphIdle ==
    /\ dashboardPaths = <<>>
    /\ folderGraph = EmptyGraph
    /\ graphBuilt = FALSE

GraphInit ==
    /\ dashboardPaths \in SeqsUpTo(GraphFiles, MaxPaths)
    /\ folderGraph = EmptyGraph
    /\ graphBuilt = FALSE

CallBuildFolderGraph ==
    /\ ~graphBuilt
    /\ folderGraph' = BuildFolderGraph(dashboardPaths, BaseDir)
    /\ graphBuilt' = TRUE
    /\ UNCHANGED dashboardPaths
    /\ UNCHANGED <<hashVars, serverVars, clientVars, driverVars, loopVars>>

InitGraph == GraphInit /\ HashIdle /\ ServerIdle /\ ClientIdle /\ DriverIdle /\ LoopIdle

SpecGraph == InitGraph /\ [][CallBuildFolderGraph]_vars

\* what a forest is, whatever the order its nodes were allocated in
GraphFullPaths(graph) == {graph.nodes[n].FullPath : n \in GraphNodes(graph)}

GraphEdges(graph) ==
    UNION { { <<graph.nodes[n].FullPath, graph.nodes[graph.nodes[n].Children[k]].FullPath>> :
                k \in 1..Len(graph.nodes[n].Children) } : n \in GraphNodes(graph) }

NoChildTwice(graph) ==
    \A n \in GraphNodes(graph) :
        \A j, k \in 1..Len(graph.nodes[n].Children) :
            graph.nodes[n].Children[j] = graph.nodes[n].Children[k] => j = k

\* the lists that hold the same files as ps, in any order, any file repeated
Rearrangements(ps) == {q \in SeqsUpTo(Range(ps), MaxPaths) : Range(q) = Range(ps)}

\* C8: BuildFolderGraph is idempotent and order-independent: every
\* permutation of the list and every repetition of its files gives a forest
\* with the same full paths and the same parent/child edges, and no node
\* lists a child twice.
C8_BuildOrderIndependent ==
    graphBuilt =>
        /\ NoChildTwice(folderGraph)
        /\ \A q \in Rearrangements(dashboardPaths) :
              LET g == BuildFolderGraph(q, BaseDir)
              IN  /\ GraphFullPaths(g) = GraphFullPaths(folderGraph)
                  /\ GraphEdges(g) = GraphEdges(folderGraph)
                  /\ NoChildTwice(g)

\* a list with a repeated file and two files in a shared folder, of which a
\* rearrangement allocates the nodes in another order
C8_Witness ==
    /\ graphBuilt
    /\ Len(dashboardPaths) > Cardinality(Range(dashboardPaths))
    /\ \E n \in GraphNodes(folderGraph) : Len(folderGraph.nodes[n].Children) > 0
    /\ \E q \in Rearrangements(dashboardPaths) :
          BuildFolderGraph(q, BaseDir) # folderGraph

\* C9: each map key is its node's FullPath, a child's FullPath is its
\* parent's FullPath, "/" and the child's Name, and the node one segment above
\* a nested node exists and lists it as a child.
C9_GraphShape ==
    graphBuilt =>
        /\ \A p \in DOMAIN folderGraph.index :
              folderGraph.nodes[folderGraph.index[p]].FullPath = p
        /\ \A n \in GraphNodes(folderGraph) :
              \A k \in 1..Len(folderGraph.nodes[n].Children) :
                  LET c == folderGraph.nodes[folderGraph.nodes[n].Children[k]]
                  IN  c.FullPath = folderGraph.nodes[n].FullPath \o Slash \o c.Name
        /\ \A p \in DOMAIN folderGraph.index :
              LET segs == Split(p, "/")
                  up == Join(SubSeq(segs, 1, Len(segs) - 1), Slash)
              IN  Len(segs) > 1 =>
                    /\ up \in DOMAIN folderGraph.index
                    /\ folderGraph.index[p] \in
                          Range(folderGraph.nodes[folderGraph.index[up]].Children)

C9_Witness ==
    /\ graphBuilt
    /\ \E n \in GraphNodes(folderGraph) :
          /\ Len(folderGraph.nodes[n].Children) > 0
          /\ HasParent(n, folderGraph) = FALSE
    /\ Cardinality(DOMAIN folderGraph.index) >= 3

\* the folder path of a dashboard file, as BuildFolderGraph computes it
RelFolder(path) == ToSlash(Rel(BaseDir, Dir(path)))

IsRootLevel(path) == RelFolder(path) = Dot \/ RelFolder(path) = <<>>

\* the full paths of a folder path and of the folders above it
PathPrefixes(rel) ==
    LET segs == Split(rel, "/")
    IN  {Join(SubSeq(segs, 1, i), Slash) : i \in 1..Len(segs)}

\* C10: a node of the forest has no parent exactly when its FullPath holds
\* no "/", and the nodes are the folders of the dashboards that are not at
\* root level: a root-level dashboard adds none.
C10_RootDetection ==
    graphBuilt =>
        /\ \A n \in GraphNodes(folderGraph) :
              (HasParent(n, folderGraph) = FALSE)
                  <=> ~Contains(folderGraph.nodes[n].FullPath, "/")
        /\ GraphFullPaths(folderGraph) =
              UNION {PathPrefixes(RelFolder(dashboardPaths[i])) :
                        i \in {j \in 1..Len(dashboardPaths) : ~IsRootLevel(dashboardPaths[j])}}

\* a root folder and a nested folder of the same name, beside a root-level
\* dashboard
C10_Witness ==
    /\ graphBuilt
    /\ \E i \in 1..Len(dashboardPaths) : IsRootLevel(dashboardPaths[i])
    /\ \E m, n \in GraphNodes(folderGraph) :
          /\ folderGraph.nodes[m].Name = folderGraph.nodes[n].Name
          /\ HasParent(m, folderGraph)
          /\ ~HasParent(n, folderGraph)

----------------------------------------------------------------------------
(* The change detector on its own: any MaxCalls calls of HasFileChanged on *)
(* a new Service                                                           *)

MaxCalls == 3

HashPaths == {<<"/", "d", "/", "x">>, <<"/", "d", "/", "a", "/", "x">>}

Contents == {"{1}", "{2}", "{3}"}

CallHasFileChanged ==
    /\ Len(hashCalls) < MaxCalls
    /\ \E path \in HashPaths, content \in Contents :
          LET r == HasFileChanged(fileHashes, path, content)
          IN  /\ fileHashes' = r.fileHashes
              /\ hashCalls' = Append(hashCalls,
                                     [path |-> path, content |-> content, ret |-> r.ret])
    /\ UNCHANGED <<graphVars, serverVars, clientVars, driverVars, loopVars>>

InitHash == HashIdle /\ GraphIdle /\ ServerIdle /\ ClientIdle /\ DriverIdle /\ LoopIdle

SpecHash == InitHash /\ [][CallHasFileChanged]_vars

\* the calls before call i that were for the same path
EarlierCalls(i) == {j \in 1..(i - 1) : hashCalls[j].path = hashCalls[i].path}

Latest(S) == CHOOSE j \in S : \A k \in S : k <= j

\* C4: HasFileChanged(path, content) returns true exactly when path was never
\* passed before or the most recent earlier call for path had another
\* content.
C4_ChangedIffNewOrDiffers ==
    \A i \in 1..Len(hashCalls) :
        hashCalls[i].ret =
            (\/ EarlierCalls(i) = {}
             \/ hashCalls[Latest(EarlierCalls(i))].content # hashCalls[i].content)

\* content A, content B, then content B again for one path
C4_Witness ==
    /\ Len(hashCalls) = 3
    /\ hashCalls[1].path = hashCalls[2].path
    /\ hashCalls[2].path = hashCalls[3].path
    /\ hashCalls[1].content # hashCalls[2].content
    /\ hashCalls[2].content = hashCalls[3].content
    /\ hashCalls[2].ret
    /\ ~hashCalls[3].ret

----------------------------------------------------------------------------
(* The reconciler on its own: CreateFolderTreeFromNode called for every    *)
(* root of a forest, in any order, and then a second time over the same    *)
(* forest, while other clients may change the server's folders MaxExt times*)

MaxExt == 1

\* /d/a/b/x /d/a/c/x /d/e/x: a tree with two children and a second root;
\* /d/a/b/c/x: a chain of three folders
ReconcileInputs ==
    { << <<"/", "d", "/", "a", "/", "b", "/", "x">>,
         <<"/", "d", "/", "a", "/", "c", "/", "x">>,
         <<"/", "d", "/", "e", "/", "x">> >>,
      << <<"/", "d", "/", "a", "/", "b", "/", "c", "/", "x">> >> }

Roots(graph) == {n \in GraphNodes(graph) : ~HasParent(n, graph)}

InitReconcile ==
    /\ dashboardPaths \in ReconcileInputs
    /\ folderGraph = BuildFolderGraph(dashboardPaths, BaseDir)
    /\ graphBuilt = TRUE
    /\ HashIdle
    /\ remote = <<>>
    /\ nextID = 1
    /\ rejectsDuplicates \in BOOLEAN
    /\ extLeft = MaxExt
    /\ faults = NoFaultLimit
    /\ ClientIdle
    /\ DriverIdle
    /\ LoopIdle

\* the caller's loop reaches a root it has not passed yet
CallRoot ==
    /\ run # "done"
    /\ \E root \in Roots(folderGraph) \ called : RecStart(root)
    /\ UNCHANGED <<graphVars, hashVars, serverVars, driverVars, loopVars>>

RootReturned ==
    /\ recPhase = "idle"
    /\ recRet # "none"
    /\ called' = called \cup {recRoot}
    /\ results' = (recRoot :> recRet) @@ results
    /\ recRet' = "none"
    /\ UNCHANGED <<graphVars, hashVars, serverVars, run, firstRun, lookups, responderVars, configVars, soloVars, loopVars>>
    /\ UNCHANGED <<folders, pending, recPhase, recRoot, reqLog>>

AllRootsOk == \A root \in Roots(folderGraph) : root \in DOMAIN results /\ results[root] = "ok"

\* the first run is over: the second starts, its request log empty
SecondRun ==
    /\ run = "first"
    /\ recPhase = "idle" /\ recRet = "none"
    /\ called = Roots(folderGraph)
    /\ run' = "second"
    /\ firstRun' = [ok |-> AllRootsOk /\ extLeft = MaxExt,
                    nodes |-> folderGraph.nodes, folders |-> folders, remote |-> remote]
    /\ called' = {}
    /\ results' = NoEntries
    /\ reqLog' = <<>>
    /\ UNCHANGED <<graphVars, hashVars, serverVars, lookups, responderVars, configVars, soloVars, loopVars>>
    /\ UNCHANGED <<folders, pending, recPhase, recRoot, recRet>>

RunsDone ==
    /\ run = "second"
    /\ recPhase = "idle" /\ recRet = "none"
    /\ called = Roots(folderGraph)
    /\ run' = "done"
    /\ UNCHANGED <<graphVars, hashVars, serverVars, clientVars, called, results, firstRun, lookups, responderVars, configVars, soloVars, loopVars>>

ReconcileStep ==
    /\ RecStep
    /\ UNCHANGED <<dashboardPaths, graphBuilt, hashVars, driverVars, loopVars>>

OtherClient ==
    /\ \/ OtherClientCreates
       \/ OtherClientDeletes
    /\ UNCHANGED <<graphVars, hashVars, clientVars, driverVars, loopVars>>

NextReconcile ==
    \/ CallRoot
    \/ ReconcileStep
    \/ RootReturned
    \/ SecondRun
    \/ RunsDone
    \/ OtherClient

SpecReconcile == InitReconcile /\ [][NextReconcile]_vars

NoOtherClientYet == extLeft = MaxExt

Creates(log) == {i \in 1..Len(log) : log[i].op = "create"}

\* C1: when the first run returned no error for any root and nobody else
\* changed the server, the second run over the same forest sends no create
\* request and leaves every node's ID and UID and every cache entry as the
\* first run set them.
C1_SecondRunIdempotent ==
    (run # "first" /\ firstRun.ok /\ NoOtherClientYet) =>
        /\ Creates(reqLog) = {}
        /\ folderGraph.nodes = firstRun.nodes
        /\ folders = firstRun.folders

\* both runs went through: the first created the folders, the second found
\* every one of them
C1_Witness ==
    /\ run = "done"
    /\ firstRun.ok
    /\ NoOtherClientYet
    /\ AllRootsOk
    /\ Len(remote) = Len(folderGraph.nodes)
    /\ Len(reqLog) = Len(folderGraph.nodes)
    /\ \A i \in 1..Len(reqLog) : reqLog[i].result = "found"
    /\ \A n \in GraphNodes(folderGraph) : folderGraph.nodes[n].ID > 0

\* the folder a query for title under parentUid finds on the server
FirstHeld(rem, title, parentUid) ==
    LET m == {i \in 1..Len(rem) : rem[i].title = title /\ rem[i].parentUid = parentUid}
    IN  rem[CHOOSE i \in m : \A k \in m : i <= k]

\* C3 as claimed: after a create request that was answered with a conflict,
\* CreateFolderTreeFromNode reports no failure for the node.
C3_ConflictNeverFails ==
    \A i \in 1..Len(reqLog) :
        (reqLog[i].result = "conflict" /\ i + 1 = Len(reqLog)) => recRet # "err"

\* C3, amended: when the create request is answered with a conflict and the
\* existence query that follows finds the folder, the call does not fail at
\* the node, the node takes the ID and UID of the folder the server holds under
\* that title and parent, the cache takes that ID for the node's FullPath, and
\* the node's children are called next with that UID as their parent; the call
\* fails at the node only when that query fails or finds nothing.
C3_ConflictAdoptsExisting ==
    [][ (recPhase = "requery" /\ reqLog' # reqLog) =>
          LET last == reqLog'[Len(reqLog')]
              held == HoldsFolder(remote, RecNode.Name, RecCall.parentUid)
              f == FirstHeld(remote, RecNode.Name, RecCall.parentUid)
          IN  /\ last.result = "found" =>
                    /\ held
                    /\ recRet' # "err"
                    /\ folderGraph'.nodes[RecCall.node].ID = f.id
                    /\ folderGraph'.nodes[RecCall.node].UID = f.uid
                    /\ RecNode.FullPath \in DOMAIN folders'
                    /\ folders'[RecNode.FullPath] = f.id
                    /\ SubSeq(pending', 1, Len(RecNode.Children))
                          = ChildCalls(RecNode, f.uid)
              /\ last.result # "found" =>
                    /\ last.result \in {"error", "notfound"}
                    /\ last.result = "notfound" => ~held
                    /\ recRet' = "err"
                    /\ folderGraph' = folderGraph
                    /\ folders' = folders
    ]_vars

\* a conflict on a node with children, resolved by the second query
C3_Witness ==
    \E i \in 1..Len(reqLog) :
        /\ reqLog[i].result = "conflict"
        /\ i + 1 = Len(reqLog)
        /\ reqLog[i + 1].result = "found"
        /\ reqLog[i + 1].path = reqLog[i].path
        /\ recPhase = "query"
        /\ \E n \in GraphNodes(folderGraph) :
              /\ folderGraph.nodes[n].FullPath = reqLog[i].path
              /\ Len(folderGraph.nodes[n].Children) > 0
              /\ folderGraph.nodes[n].ID = reqLog[i + 1].id
              /\ folders[reqLog[i].path] = reqLog[i + 1].id

----------------------------------------------------------------------------
(* pkg/sync: CopyDashboards, GetChangedFiles and LoadDashboard             *)

RECURSIVE CleanElements(_, _)
CleanElements(es, acc) ==
    IF es = <<>> THEN acc
    ELSE IF Head(es) = Dot THEN CleanElements(Tail(es), acc)
    ELSE IF Head(es) = DotDot
         THEN CleanElements(Tail(es), IF acc = <<>> THEN acc ELSE SubSeq(acc, 1, Len(acc) - 1))
    ELSE CleanElements(Tail(es), Append(acc, Head(es)))

\* filepath.Join(dir, rel) for an absolute dir: joined, then cleaned
PathJoin(dir, rel) == Slash \o Join(CleanElements(Elements(dir \o Slash \o rel), <<>>), Slash)

\* the dashboard files filepath.Walk passes, in its lexical order
Walk(walkOrder, files) == SelectSeq(walkOrder, LAMBDA p : p \in DOMAIN files)

\* CopyDashboards: where each file of the repository goes, and with what content
CopyDashboards(walkOrder, files, repoDir, repoSubdir, dashDir) ==
    LET walked == Walk(walkOrder, files)
        srcDir == IF repoSubdir # Dot /\ repoSubdir # <<>>
                  THEN PathJoin(repoDir, repoSubdir) ELSE repoDir
    IN  [i \in 1..Len(walked) |->
            [destPath |-> PathJoin(dashDir, Rel(srcDir, walked[i])),
             content |-> files[walked[i]]]]

\* the dashboards directory after os.WriteFile of every copy
WriteFiles(tree, copies) ==
    LET dests == {copies[i].destPath : i \in 1..Len(copies)}
    IN  [p \in DOMAIN tree \cup dests |->
            IF p \in dests
            THEN copies[CHOOSE i \in 1..Len(copies) :
                            /\ copies[i].destPath = p
                            /\ \A j \in (i + 1)..Len(copies) : copies[j].destPath # p].content
            ELSE tree[p]]

\* GetChangedFiles that returns what it has at the first file it cannot read
RECURSIVE GetChangedFilesStopsAtUnreadable(_, _, _, _)
GetChangedFilesStopsAtUnreadable(hashes, files, tree, unreadable) ==
    IF files = <<>> THEN [changed |-> <<>>, fileHashes |-> hashes, err |-> FALSE]
    ELSE IF Head(files) \in unreadable
         THEN [changed |-> <<>>, fileHashes |-> hashes, err |-> FALSE]
    ELSE LET r == HasFileChanged(hashes, Head(files), tree[Head(files)])
             rest == GetChangedFilesStopsAtUnreadable(r.fileHashes, Tail(files), tree,
                                                      unreadable)
         IN  [changed |-> IF r.ret THEN <<Head(files)>> \o rest.changed ELSE rest.changed,
              fileHashes |-> rest.fileHashes,
              err |-> FALSE]

\* GetChangedFiles on the table hashes: the files it returns, the table it
\* leaves and whether it returns an error; os.ReadFile fails for the files of
\* unreadable
RECURSIVE GetChangedFiles(_, _, _, _)
GetChangedFiles(hashes, files, tree, unreadable) ==
    IF files = <<>> THEN [changed |-> <<>>, fileHashes |-> hashes, err |-> FALSE]
    ELSE IF Head(files) \in unreadable
         THEN GetChangedFiles(hashes, Tail(files), tree, unreadable)
    ELSE LET r == HasFileChanged(hashes, Head(files), tree[Head(files)])
             rest == GetChangedFiles(r.fileHashes, Tail(files), tree, unreadable)
         IN  [changed |-> IF r.ret THEN <<Head(files)>> \o rest.changed ELSE rest.changed,
              fileHashes |-> rest.fileHashes,
              err |-> FALSE]

detectFolderFromPath(filePath, dashDir) ==
    LET rel == ToSlash(Rel(dashDir, Dir(filePath)))
    IN  IF rel = Dot \/ rel = <<>> THEN <<>> ELSE rel

\* LoadDashboard, when the file can be read and parsed
LoadDashboard(filePath, tree, dashDir) ==
    [FilePath |-> filePath,
     FolderPath |-> detectFolderFromPath(filePath, dashDir),
     Content |-> tree[filePath]]

----------------------------------------------------------------------------
(* pkg/grafana: folder lookup, folder creation on demand, and the upload   *)

\* GetFolderIDByPath that takes no path for cached
GetFolderIDByPathMiss(cache, folderPath) == 0

GetFolderIDByPath(cache, folderPath) ==
    IF folderPath = <<>> \/ folderPath = Dot THEN 0
    ELSE IF folderPath \in DOMAIN cache THEN cache[folderPath]
    ELSE 0

replaceSeparators(s, sep) ==
    [i \in 1..Len(s) |-> IF s[i] = "/" \/ s[i] = "\\" THEN sep ELSE s[i]]

RECURSIVE splitByFrom(_, _, _)
splitByFrom(s, sep, current) ==
    LET flushed == IF current # <<>> THEN <<current>> ELSE <<>>
    IN  IF s = <<>> THEN flushed
        ELSE IF Head(s) = sep THEN flushed \o splitByFrom(Tail(s), sep, <<>>)
        ELSE splitByFrom(Tail(s), sep, Append(current, Head(s)))

splitBy(s, sep) == splitByFrom(s, sep, <<>>)

splitPath(path) == splitBy(replaceSeparators(path, "/"), "/")

splitFolderPath(path) ==
    IF path = <<>> \/ path = Dot THEN <<>>
    ELSE SelectSeq(splitPath(path), LAMBDA p : p # <<>> /\ p # Dot)

\* POST /api/dashboards/db: the statuses the client may get back
UploadStatuses(rem, fid) ==
    {0, 500} \cup (IF fid = 0 \/ fid \in RemoteIds(rem) THEN {200} ELSE {404})

----------------------------------------------------------------------------
(* pkg/health: the Checker's setters                                       *)

SetGrafanaHealth(h, healthy) == [h EXCEPT !.grafanaHealthy = healthy]
SetGitSyncHealth(h, healthy) == [h EXCEPT !.gitSyncHealthy = healthy]
SetLastSync(h, t) == [h EXCEPT !.lastSyncTime = t]
SetLastError(h, err) == [h EXCEPT !.lastError = err]

\* GetStatus that knows no degraded: one check down is unhealthy
GetStatusNoDegraded(h) ==
    [Status |-> IF h.grafanaHealthy /\ h.gitSyncHealthy THEN "healthy" ELSE "unhealthy",
     GrafanaHealthy |-> h.grafanaHealthy,
     GitSyncHealthy |-> h.gitSyncHealthy,
     LastSyncTime |-> h.lastSyncTime,
     LastError |-> h.lastError]

\* GetStatus; the Timestamp field, the time of the call, is left out
GetStatus(h) ==
    LET s0 == "healthy"
        s1 == IF ~h.grafanaHealthy \/ ~h.gitSyncHealthy THEN "degraded" ELSE s0
        s2 == IF ~h.grafanaHealthy /\ ~h.gitSyncHealthy THEN "unhealthy" ELSE s1
    IN  [Status |-> s2,
         GrafanaHealthy |-> h.grafanaHealthy,
         GitSyncHealthy |-> h.gitSyncHealthy,
         LastSyncTime |-> h.lastSyncTime,
         LastError |-> h.lastError]

\* the handler's answer to a request: the status code and the body; a status
\* the switch has no case for gets the code of the first write, 200
Handler(h) ==
    LET status == GetStatus(h)
    IN  [code |-> CASE status.Status = "healthy" -> 200
                    [] status.Status = "degraded" -> 200
                    [] status.Status = "unhealthy" -> 503
                    [] OTHER -> 200,
         body |-> status]

----------------------------------------------------------------------------
(* cmd/grafana-git-sync: the poll loop                                     *)
(*                                                                         *)
(* Each action is one request, or one file operation that may fail, with   *)
(* the local steps that follow it. What was pushed to the branch since the *)
(* last fetch is seen at the fetch that pulls it.                          *)

MaxCommits == 2
MaxFaults == 2

\* cfg.RepoDir, cfg.RepoSubdir; cfg.DashboardsDir is BaseDir
RepoDir == <<"/", "r">>
RepoSubdir == Dot

\* /r/a/b/x and /r/c/x, the dashboard files a commit may hold
RepoFiles ==
    << <<"/", "r", "/", "a", "/", "b", "/", "x">>,
       <<"/", "r", "/", "c", "/", "x">> >>

\* /r/x, a dashboard file directly in the repository directory
RootFile == <<"/", "r", "/", "x">>

\* the order in which filepath.Walk passes the files: /r/a/b/x, /r/c/x, /r/x
WalkOrder == RepoFiles \o <<RootFile>>

DashboardContents == {"{1}", "{2}"}

RepoStates == UNION {[S -> DashboardContents] : S \in SUBSET Range(RepoFiles)}

CommitId(n) == "c" \o ToString(n)

\* what HEAD may be after a pull: where it was, or a new commit
Fetched(r) ==
    {r} \cup (IF r.n < MaxCommits
              THEN {[n |-> r.n + 1, files |-> fs] : fs \in RepoStates}
              ELSE {})

MayFailTimes(n) == ~faults.limited \/ faults.left >= n

SpendTimes(n) ==
    faults' = IF faults.limited THEN [faults EXCEPT !.left = @ - n] ELSE faults

\* CopyDashboards and GetChangedFiles for the commit h
CycleDetect(h, unreadable) ==
    LET copies == CopyDashboards(WalkOrder, h.files, RepoDir, RepoSubdir, BaseDir)
        tree == WriteFiles(dashboardsDir, copies)
        files == [i \in 1..Len(copies) |-> copies[i].destPath]
        r == GetChangedFiles(fileHashes, files, tree, unreadable)
    IN  [tree |-> tree, files |-> files, changed |-> r.changed, fileHashes |-> r.fileHashes]

CopiedFiles(h) == Range(CycleDetect(h, {}).files)

ReadErrors(files, unreadable) ==
    LET failed == SelectSeq(files, LAMBDA f : f \in unreadable)
    IN  [i \in 1..Len(failed) |-> Request("read", failed[i], "", "error", 0)]

LogPaths(log, op, result) ==
    {log[i].path : i \in {j \in 1..Len(log) : log[j].op = op /\ log[j].result = result}}

\* the upload requests a log holds for a file
UploadCount(log, f) ==
    Cardinality({i \in 1..Len(log) : log[i].op = "upload" /\ log[i].path = f})

\* the files a log holds a failed load or a failed folder resolution for, and
\* those it holds a failed folder resolution or a failed upload for
Skipped(log) == LogPaths(log, "load", "error") \cup LogPaths(log, "resolve", "error")
FailedRemotely(log) == LogPaths(log, "resolve", "error") \cup LogPaths(log, "upload", "error")

PassSummary(files, tree, changed, log) ==
    [n |-> lastPass.n + 1,
     content |-> [f \in Range(files) |-> tree[f]],
     read |-> Range(files) \ LogPaths(log, "read", "error"),
     changed |-> changed,
     uploads |-> [f \in Range(files) |-> UploadCount(log, f)],
     skipped |-> Skipped(log),
     failed |-> FailedRemotely(log),
     folders |-> folders]

\* the pull fails
CycleFetchFails ==
    /\ pc = "sleep"
    /\ MayFail(TRUE)
    /\ Spend(TRUE)
    /\ health' = SetGitSyncHealth(SetLastError(health, "fetch"), FALSE)
    /\ reqLog' = <<>>
    /\ UNCHANGED <<graphVars, hashVars, driverVars>>
    /\ UNCHANGED <<remote, nextID, rejectsDuplicates, extLeft>>
    /\ UNCHANGED <<folders, pending, recPhase, recRoot, recRet>>
    /\ UNCHANGED <<repo, lastCommit, commit, pc, dashboardsDir, allFiles, changedFiles,
                   upIdx, od, folderID, lastPass>>

\* the pull brings nothing new
CycleNoNewCommit ==
    /\ pc = "sleep"
    /\ CommitId(repo.n) = lastCommit
    /\ commit' = CommitId(repo.n)
    /\ health' = SetGitSyncHealth(health, TRUE)
    /\ reqLog' = <<>>
    /\ UNCHANGED <<graphVars, hashVars, serverVars, driverVars>>
    /\ UNCHANGED <<folders, pending, recPhase, recRoot, recRet>>
    /\ UNCHANGED <<repo, lastCommit, pc, dashboardsDir, allFiles, changedFiles,
                   upIdx, od, folderID, lastPass>>

\* CycleCopyFails that saves the commit as lastCommit all the same
CycleCopyFailsSavesCommit ==
    /\ pc = "sleep"
    /\ MayFail(TRUE)
    /\ Spend(TRUE)
    /\ \E h \in Fetched(repo) :
          /\ CommitId(h.n) # lastCommit
          /\ repo' = h
          /\ commit' = CommitId(h.n)
          /\ lastCommit' = CommitId(h.n)
    /\ health' = SetLastError(SetGitSyncHealth(health, TRUE), "copy")
    /\ reqLog' = <<>>
    /\ UNCHANGED <<graphVars, hashVars, driverVars>>
    /\ UNCHANGED <<remote, nextID, rejectsDuplicates, extLeft>>
    /\ UNCHANGED <<folders, pending, recPhase, recRoot, recRet>>
    /\ UNCHANGED <<pc, dashboardsDir, allFiles, changedFiles,
                   upIdx, od, folderID, lastPass>>

\* a commit other than lastCommit, and CopyDashboards fails
CycleCopyFails ==
    /\ pc = "sleep"
    /\ MayFail(TRUE)
    /\ Spend(TRUE)
    /\ \E h \in Fetched(repo) :
          /\ CommitId(h.n) # lastCommit
          /\ repo' = h
          /\ commit' = CommitId(h.n)
    /\ health' = SetLastError(SetGitSyncHealth(health, TRUE), "copy")
    /\ reqLog' = <<>>
    /\ UNCHANGED <<graphVars, hashVars, driverVars>>
    /\ UNCHANGED <<remote, nextID, rejectsDuplicates, extLeft>>
    /\ UNCHANGED <<folders, pending, recPhase, recRoot, recRet>>
    /\ UNCHANGED <<lastCommit, pc, dashboardsDir, allFiles, changedFiles,
                   upIdx, od, folderID, lastPass>>

\* a commit other than lastCommit in which GetChangedFiles finds no changed file
CycleNoChanges ==
    /\ pc = "sleep"
    /\ \E h \in Fetched(repo) : \E unreadable \in SUBSET CopiedFiles(h) :
          LET d == CycleDetect(h, unreadable)
              log == ReadErrors(d.files, unreadable)
          IN  /\ CommitId(h.n) # lastCommit
              /\ MayFailTimes(Cardinality(unreadable))
              /\ SpendTimes(Cardinality(unreadable))
              /\ d.changed = <<>>
              /\ repo' = h
              /\ commit' = CommitId(h.n)
              /\ lastCommit' = CommitId(h.n)
              /\ dashboardsDir' = d.tree
              /\ allFiles' = d.files
              /\ changedFiles' = d.changed
              /\ fileHashes' = d.fileHashes
              /\ reqLog' = log
              /\ lastPass' = PassSummary(d.files, d.tree, d.changed, log)
    /\ health' = SetGitSyncHealth(health, TRUE)
    /\ UNCHANGED <<graphVars, hashCalls, driverVars>>
    /\ UNCHANGED <<remote, nextID, rejectsDuplicates, extLeft>>
    /\ UNCHANGED <<folders, pending, recPhase, recRoot, recRet>>
    /\ UNCHANGED <<pc, upIdx, od, folderID>>

\* a commit other than lastCommit with changed files: the pass builds the
\* folder graph and turns to its roots
CyclePassStarts ==
    /\ pc = "sleep"
    /\ \E h \in Fetched(repo) : \E unreadable \in SUBSET CopiedFiles(h) :
          LET d == CycleDetect(h, unreadable)
              graph == BuildFolderGraph(d.files, BaseDir)
          IN  /\ CommitId(h.n) # lastCommit
              /\ MayFailTimes(Cardinality(unreadable))
              /\ SpendTimes(Cardinality(unreadable))
              /\ d.changed # <<>>
              /\ repo' = h
              /\ commit' = CommitId(h.n)
              /\ dashboardsDir' = d.tree
              /\ allFiles' = d.files
              /\ changedFiles' = d.changed
              /\ fileHashes' = d.fileHashes
              /\ reqLog' = ReadErrors(d.files, unreadable)
              /\ dashboardPaths' = d.files
              /\ folderGraph' = graph
              /\ pc' = IF Roots(graph) = {} THEN "load" ELSE "folders"
    /\ graphBuilt' = TRUE
    /\ called' = {}
    /\ upIdx' = 1
    /\ health' = SetGitSyncHealth(health, TRUE)
    /\ UNCHANGED <<hashCalls, run, results, firstRun, lookups, responderVars, configVars, soloVars>>
    /\ UNCHANGED <<remote, nextID, rejectsDuplicates, extLeft>>
    /\ UNCHANGED <<folders, pending, recPhase, recRoot, recRet>>
    /\ UNCHANGED <<lastCommit, od, folderID, lastPass>>

\* the loop over the graph reaches a root, in the map's order
SyncCallRoot ==
    /\ pc = "folders"
    /\ \E root \in Roots(folderGraph) \ called : RecStart(root)
    /\ UNCHANGED <<graphVars, hashVars, serverVars, driverVars, loopVars>>

\* SyncRootReturned that leaves the loop over the graph at the first error
SyncRootReturnedStopOnError ==
    /\ pc = "folders"
    /\ recPhase = "idle"
    /\ recRet # "none"
    /\ called' = called \cup {recRoot}
    /\ recRet' = "none"
    /\ health' = IF recRet = "err" THEN SetLastError(health, "folder") ELSE health
    /\ pc' = IF called' = Roots(folderGraph) \/ recRet = "err" THEN "load" ELSE "folders"
    /\ UNCHANGED <<graphVars, hashVars, serverVars, run, results, firstRun, lookups, responderVars, configVars, soloVars>>
    /\ UNCHANGED <<folders, pending, recPhase, recRoot, reqLog>>
    /\ UNCHANGED <<repo, lastCommit, commit, dashboardsDir, allFiles, changedFiles,
                   upIdx, od, folderID, lastPass>>

\* CreateFolderTreeFromNode has returned for a root
SyncRootReturned ==
    /\ pc = "folders"
    /\ recPhase = "idle"
    /\ recRet # "none"
    /\ called' = called \cup {recRoot}
    /\ recRet' = "none"
    /\ health' = IF recRet = "err" THEN SetLastError(health, "folder") ELSE health
    /\ pc' = IF called' = Roots(folderGraph) THEN "load" ELSE "folders"
    /\ UNCHANGED <<graphVars, hashVars, serverVars, run, results, firstRun, lookups, responderVars, configVars, soloVars>>
    /\ UNCHANGED <<folders, pending, recPhase, recRoot, reqLog>>
    /\ UNCHANGED <<repo, lastCommit, commit, dashboardsDir, allFiles, changedFiles,
                   upIdx, od, folderID, lastPass>>

CurFile == changedFiles[upIdx]

\* LoadDashboard fails: the loop goes on to the next file
UploadLoadFails ==
    /\ pc = "load"
    /\ upIdx <= Len(changedFiles)
    /\ MayFail(TRUE)
    /\ Spend(TRUE)
    /\ reqLog' = Append(reqLog, Request("load", CurFile, "", "error", 0))
    /\ upIdx' = upIdx + 1
    /\ UNCHANGED <<graphVars, hashVars, driverVars>>
    /\ UNCHANGED <<remote, nextID, rejectsDuplicates, extLeft>>
    /\ UNCHANGED <<folders, pending, recPhase, recRoot, recRet>>
    /\ UNCHANGED <<repo, lastCommit, commit, pc, dashboardsDir, allFiles, changedFiles,
                   od, folderID, health, lastPass>>

\* UploadLoad that asks the cache for nothing and resolves every folder on
\* demand
UploadLoadNoCache ==
    /\ pc = "load"
    /\ upIdx <= Len(changedFiles)
    /\ LET dashboard == LoadDashboard(CurFile, dashboardsDir, BaseDir)
           id == GetFolderIDByPath(folders, dashboard.FolderPath)
           parts == splitFolderPath(dashboard.FolderPath)
       IN  IF dashboard.FolderPath = <<>>
           THEN /\ folderID' = id
                /\ pc' = "send"
                /\ UNCHANGED <<od, upIdx, reqLog>>
           ELSE IF parts = <<>>
           THEN /\ reqLog' = Append(reqLog, Request("resolve", CurFile, "", "error", 0))
                /\ upIdx' = upIdx + 1
                /\ UNCHANGED <<od, folderID, pc>>
           ELSE /\ od' = [parts |-> parts, i |-> 1, currentPath |-> parts[1],
                          currentUID |-> "", folderID |-> 0]
                /\ pc' = "odquery"
                /\ UNCHANGED <<folderID, upIdx, reqLog>>
    /\ UNCHANGED <<graphVars, hashVars, serverVars, driverVars>>
    /\ UNCHANGED <<folders, pending, recPhase, recRoot, recRet>>
    /\ UNCHANGED <<repo, lastCommit, commit, dashboardsDir, allFiles, changedFiles,
                   health, lastPass>>

\* UploadLoad that takes a cached ID only when the server still holds the
\* folder, and resolves the folder on demand otherwise
UploadLoadVerifies ==
    /\ pc = "load"
    /\ upIdx <= Len(changedFiles)
    /\ LET dashboard == LoadDashboard(CurFile, dashboardsDir, BaseDir)
           id == GetFolderIDByPath(folders, dashboard.FolderPath)
           parts == splitFolderPath(dashboard.FolderPath)
       IN  IF dashboard.FolderPath = <<>> \/ (id # 0 /\ id \in RemoteIds(remote))
           THEN /\ folderID' = id
                /\ pc' = "send"
                /\ UNCHANGED <<od, upIdx, reqLog>>
           ELSE IF dashboard.FolderPath \in DOMAIN folders /\ id \in RemoteIds(remote)
           THEN /\ folderID' = folders[dashboard.FolderPath]
                /\ pc' = "send"
                /\ UNCHANGED <<od, upIdx, reqLog>>
           ELSE IF parts = <<>>
           THEN /\ reqLog' = Append(reqLog, Request("resolve", CurFile, "", "error", 0))
                /\ upIdx' = upIdx + 1
                /\ UNCHANGED <<od, folderID, pc>>
           ELSE /\ od' = [parts |-> parts, i |-> 1, currentPath |-> parts[1],
                          currentUID |-> "", folderID |-> 0]
                /\ pc' = "odquery"
                /\ UNCHANGED <<folderID, upIdx, reqLog>>
    /\ UNCHANGED <<graphVars, hashVars, serverVars, driverVars>>
    /\ UNCHANGED <<folders, pending, recPhase, recRoot, recRet>>
    /\ UNCHANGED <<repo, lastCommit, commit, dashboardsDir, allFiles, changedFiles,
                   health, lastPass>>

\* UploadLoad that sends the dashboard with whatever the cache holds for its
\* folder, and never turns to CreateFolderTree
UploadLoadNoFallback ==
    /\ pc = "load"
    /\ upIdx <= Len(changedFiles)
    /\ LET dashboard == LoadDashboard(CurFile, dashboardsDir, BaseDir)
       IN  folderID' = GetFolderIDByPath(folders, dashboard.FolderPath)
    /\ pc' = "send"
    /\ UNCHANGED <<od, upIdx, reqLog>>
    /\ UNCHANGED <<graphVars, hashVars, serverVars, driverVars>>
    /\ UNCHANGED <<folders, pending, recPhase, recRoot, recRet>>
    /\ UNCHANGED <<repo, lastCommit, commit, dashboardsDir, allFiles, changedFiles,
                   health, lastPass>>

\* LoadDashboard, GetFolderIDByPath and, for a path the cache does not hold,
\* CreateFolderTree up to its first request
UploadLoad ==
    /\ pc = "load"
    /\ upIdx <= Len(changedFiles)
    /\ LET dashboard == LoadDashboard(CurFile, dashboardsDir, BaseDir)
           id == GetFolderIDByPath(folders, dashboard.FolderPath)
           parts == splitFolderPath(dashboard.FolderPath)
       IN  IF dashboard.FolderPath = <<>> \/ id # 0
           THEN /\ folderID' = id
                /\ pc' = "send"
                /\ UNCHANGED <<od, upIdx, reqLog>>
           ELSE IF dashboard.FolderPath \in DOMAIN folders
           THEN /\ folderID' = folders[dashboard.FolderPath]
                /\ pc' = "send"
                /\ UNCHANGED <<od, upIdx, reqLog>>
           ELSE IF parts = <<>>
           THEN /\ reqLog' = Append(reqLog, Request("resolve", CurFile, "", "error", 0))
                /\ upIdx' = upIdx + 1
                /\ UNCHANGED <<od, folderID, pc>>
           ELSE /\ od' = [parts |-> parts, i |-> 1, currentPath |-> parts[1],
                          currentUID |-> "", folderID |-> 0]
                /\ pc' = "odquery"
                /\ UNCHANGED <<folderID, upIdx, reqLog>>
    /\ UNCHANGED <<graphVars, hashVars, serverVars, driverVars>>
    /\ UNCHANGED <<folders, pending, recPhase, recRoot, recRet>>
    /\ UNCHANGED <<repo, lastCommit, commit, dashboardsDir, allFiles, changedFiles,
                   health, lastPass>>

OdRequest(op, result, id) == Request(op, od.currentPath, od.currentUID, result, id)

\* OdFail that leaves an entry without an ID in the cache for the part that
\* failed
OdFailWritesCache(entry) ==
    /\ reqLog' = reqLog \o <<entry, Request("resolve", CurFile, "", "error", 0)>>
    /\ od' = NoOd
    /\ pc' = "load"
    /\ upIdx' = upIdx + 1
    /\ folders' = (od.currentPath :> 0) @@ folders
    /\ UNCHANGED folderID

\* createFolderRecursive returns an error: main logs it and goes on to the
\* next file
OdFail(entry) ==
    /\ reqLog' = reqLog \o <<entry, Request("resolve", CurFile, "", "error", 0)>>
    /\ od' = NoOd
    /\ pc' = "load"
    /\ upIdx' = upIdx + 1
    /\ UNCHANGED <<folders, folderID>>

\* the folder of the current part is known: the cache takes its id, and the
\* loop goes on to the next part or returns the id
OdAdopt(entry, id, uid) ==
    /\ reqLog' = Append(reqLog, entry)
    /\ folders' = (od.currentPath :> id) @@ folders
    /\ IF od.i = Len(od.parts)
       THEN /\ od' = NoOd
            /\ folderID' = id
            /\ pc' = "send"
       ELSE /\ od' = [od EXCEPT !.i = @ + 1,
                                !.currentPath = @ \o Slash \o od.parts[od.i + 1],
                                !.currentUID = uid,
                                !.folderID = id]
            /\ folderID' = folderID
            /\ pc' = "odquery"
    /\ UNCHANGED upIdx

\* OdQuery that takes every folder for missing and goes on to create it
OdQueryNoReuse ==
    /\ pc = "odquery"
    /\ \E resp \in ListResponses(remote, od.currentUID) :
          /\ MayFail(TransportFault(resp.status))
          /\ Spend(TransportFault(resp.status))
          /\ LET existing == getFolderByTitle(resp, od.parts[od.i], od.currentUID)
             IN  IF existing.err THEN OdFail(OdRequest("odquery", "error", 0))
                 ELSE /\ reqLog' = Append(reqLog, OdRequest("odquery", "notfound", 0))
                      /\ pc' = "odcreate"
                      /\ UNCHANGED <<folders, od, folderID, upIdx>>
    /\ UNCHANGED <<remote, nextID>>

\* the existence check for the current part
OdQuery ==
    /\ pc = "odquery"
    /\ \E resp \in ListResponses(remote, od.currentUID) :
          /\ MayFail(TransportFault(resp.status))
          /\ Spend(TransportFault(resp.status))
          /\ LET existing == getFolderByTitle(resp, od.parts[od.i], od.currentUID)
             IN  IF existing.err THEN OdFail(OdRequest("odquery", "error", 0))
                 ELSE IF existing.id > 0
                      THEN OdAdopt(OdRequest("odquery", "found", existing.id),
                                   existing.id, existing.uid)
                 ELSE /\ reqLog' = Append(reqLog, OdRequest("odquery", "notfound", 0))
                      /\ pc' = "odcreate"
                      /\ UNCHANGED <<folders, od, folderID, upIdx>>
    /\ UNCHANGED <<remote, nextID>>

\* the create request for the current part
OdCreate ==
    /\ pc = "odcreate"
    /\ \E out \in CreateOutcomes(remote, nextID, rejectsDuplicates,
                                 od.parts[od.i], od.currentUID) :
          /\ MayFail(TransportFault(out.status))
          /\ Spend(TransportFault(out.status))
          /\ remote' = out.remote
          /\ nextID' = out.nextID
          /\ IF out.status = 0 THEN OdFail(OdRequest("odcreate", "error", 0))
             ELSE IF out.status >= 300
                  THEN IF out.status = 409 \/ out.status = 412
                       THEN /\ reqLog' = Append(reqLog, OdRequest("odcreate", "conflict", 0))
                            /\ pc' = "odrequery"
                            /\ UNCHANGED <<folders, od, folderID, upIdx>>
                       ELSE OdFail(OdRequest("odcreate", "error", 0))
             ELSE OdAdopt(OdRequest("odcreate", "created", out.id), out.id, out.uid)

\* the existence check after a conflict
OdRequery ==
    /\ pc = "odrequery"
    /\ \E resp \in ListResponses(remote, od.currentUID) :
          /\ MayFail(TransportFault(resp.status))
          /\ Spend(TransportFault(resp.status))
          /\ LET existing == getFolderByTitle(resp, od.parts[od.i], od.currentUID)
             IN  IF existing.err \/ existing.id = 0
                 THEN OdFail(OdRequest("odquery",
                                       IF existing.err THEN "error" ELSE "notfound", 0))
                 ELSE OdAdopt(OdRequest("odquery", "found", existing.id),
                              existing.id, existing.uid)
    /\ UNCHANGED <<remote, nextID>>

\* one request of createFolderRecursive, and what the client does with the
\* answer
OdStep ==
    /\ \/ OdQuery
       \/ OdCreate
       \/ OdRequery
    /\ UNCHANGED <<graphVars, hashVars, driverVars>>
    /\ UNCHANGED <<rejectsDuplicates, extLeft>>
    /\ UNCHANGED <<pending, recPhase, recRoot, recRet>>
    /\ UNCHANGED <<repo, lastCommit, commit, dashboardsDir, allFiles, changedFiles,
                   health, lastPass>>

UploadResult(status) == IF status = 0 \/ status >= 300 THEN "error" ELSE "ok"

\* UploadSend that leaves the loop at the first upload that fails
UploadSendStopOnError ==
    /\ pc = "send"
    /\ \E status \in UploadStatuses(remote, folderID) :
          /\ MayFail(TransportFault(status))
          /\ Spend(TransportFault(status))
          /\ reqLog' = Append(reqLog, Request("upload", CurFile, "",
                                              UploadResult(status), folderID))
          /\ health' = IF UploadResult(status) = "error"
                       THEN SetLastError(health, "upload") ELSE health
          /\ upIdx' = IF UploadResult(status) = "error"
                      THEN Len(changedFiles) + 1 ELSE upIdx + 1
    /\ folderID' = 0
    /\ pc' = "load"
    /\ UNCHANGED <<graphVars, hashVars, driverVars>>
    /\ UNCHANGED <<remote, nextID, rejectsDuplicates, extLeft>>
    /\ UNCHANGED <<folders, pending, recPhase, recRoot, recRet>>
    /\ UNCHANGED <<repo, lastCommit, commit, dashboardsDir, allFiles, changedFiles,
                   od, lastPass>>

\* UploadDashboardWithVersion for the current file, and the end of the loop's
\* iteration
UploadSend ==
    /\ pc = "send"
    /\ \E status \in UploadStatuses(remote, folderID) :
          /\ MayFail(TransportFault(status))
          /\ Spend(TransportFault(status))
          /\ reqLog' = Append(reqLog, Request("upload", CurFile, "",
                                              UploadResult(status), folderID))
          /\ health' = IF UploadResult(status) = "error"
                       THEN SetLastError(health, "upload") ELSE health
    /\ upIdx' = upIdx + 1
    /\ folderID' = 0
    /\ pc' = "load"
    /\ UNCHANGED <<graphVars, hashVars, driverVars>>
    /\ UNCHANGED <<remote, nextID, rejectsDuplicates, extLeft>>
    /\ UNCHANGED <<folders, pending, recPhase, recRoot, recRet>>
    /\ UNCHANGED <<repo, lastCommit, commit, dashboardsDir, allFiles, changedFiles,
                   od, lastPass>>

\* the upload loop is over: the pass comes to its end
PassEnd ==
    /\ pc = "load"
    /\ upIdx > Len(changedFiles)
    /\ health' = SetLastError(SetLastSync(health, health.lastSyncTime + 1), "")
    /\ lastCommit' = commit
    /\ pc' = "sleep"
    /\ upIdx' = 0
    /\ lastPass' = PassSummary(allFiles, dashboardsDir, changedFiles, reqLog)
    /\ UNCHANGED <<graphVars, hashVars, serverVars, clientVars, driverVars>>
    /\ UNCHANGED <<repo, commit, dashboardsDir, allFiles, changedFiles, od, folderID>>

\* the loop is entered: Grafana answered, the repository is cloned, the
\* dashboards directory and the server hold nothing yet
Init ==
    /\ repo \in {[n |-> 1, files |-> fs] : fs \in RepoStates}
    /\ lastCommit = ""
    /\ commit = ""
    /\ pc = "sleep"
    /\ dashboardsDir = NoEntries
    /\ allFiles = <<>>
    /\ changedFiles = <<>>
    /\ upIdx = 0
    /\ od = NoOd
    /\ folderID = 0
    /\ health = SetGitSyncHealth(SetGrafanaHealth(NewChecker, TRUE), TRUE)
    /\ lastPass = NoPass
    /\ remote = <<>>
    /\ nextID = 1
    /\ rejectsDuplicates \in BOOLEAN
    /\ extLeft = MaxExt
    /\ faults = [limited |-> TRUE, left |-> MaxFaults]
    /\ GraphIdle
    /\ HashIdle
    /\ ClientIdle
    /\ DriverIdle

Next ==
    \/ CycleFetchFails
    \/ CycleNoNewCommit
    \/ CycleCopyFails
    \/ CycleNoChanges
    \/ CyclePassStarts
    \/ SyncCallRoot
    \/ ReconcileStep
    \/ SyncRootReturned
    \/ UploadLoadFails
    \/ UploadLoad
    \/ OdStep
    \/ UploadSend
    \/ PassEnd

Spec == Init /\ [][Next]_vars

NoDuplicateFolders(rem) ==
    \A i, j \in 1..Len(rem) :
        (rem[i].title = rem[j].title /\ rem[i].parentUid = rem[j].parentUid) => i = j

\* C2: as long as no other client has changed the server's folders, no two
\* of them have the same title under the same parent, whatever passes the
\* process has run, aborted or not, and whatever folders it created on demand.
C2_NoDuplicateFolders == NoOtherClientYet => NoDuplicateFolders(remote)

\* on a server that would accept a duplicate: a second pass in which a create
\* request of the tree walk failed and the folder was then created on demand
C2_Witness ==
    /\ ~rejectsDuplicates
    /\ NoOtherClientYet
    /\ lastPass.n = 1
    /\ pc = "send"
    /\ Len(remote) = 3
    /\ \E i, j \in 1..Len(reqLog) :
          /\ i < j
          /\ reqLog[i].op = "create" /\ reqLog[i].result = "error"
          /\ reqLog[j].op = "odcreate" /\ reqLog[j].result = "created"
          /\ reqLog[j].path = reqLog[i].path

\* the upload loop has passed its last file
UploadsOver == pc = "load" /\ upIdx > Len(changedFiles)

\* C7: when the upload loop of a pass is over, every changed file whose load
\* or folder resolution failed has no upload request in the pass, and every
\* other changed file has exactly one, whatever happened to the files around it.
C7_EveryFileAttemptedOnce ==
    UploadsOver =>
        \A i \in 1..Len(changedFiles) :
            UploadCount(reqLog, changedFiles[i])
                = IF changedFiles[i] \in Skipped(reqLog) THEN 0 ELSE 1

\* two changed files: the folder of the first could not be resolved, the
\* second was uploaded all the same
C7_Witness ==
    /\ UploadsOver
    /\ Len(changedFiles) = 2
    /\ changedFiles[1] \in LogPaths(reqLog, "resolve", "error")
    /\ changedFiles[2] \in LogPaths(reqLog, "upload", "ok")

\* a sync pass comes to its end with this step
PassEnds == lastPass'.n = lastPass.n + 1

\* the files both of two consecutive passes held, with the same content
SameInBoth(first, second) ==
    {f \in DOMAIN first.content \cap DOMAIN second.content :
        first.content[f] = second.content[f]}

\* C5 as claimed: a file with the same content in two consecutive passes is
\* not in the second pass's changed files, is not uploaded in the second
\* pass, and is uploaded exactly once in the two passes together.
C5_ExactlyOneUpload ==
    [][ (PassEnds /\ lastPass.n >= 1) =>
            \A f \in SameInBoth(lastPass, lastPass') :
                /\ f \notin Range(lastPass'.changed)
                /\ lastPass'.uploads[f] = 0
                /\ lastPass.uploads[f] + lastPass'.uploads[f] = 1
    ]_vars

\* C5, amended: a file with the same content in two consecutive passes that
\* the first pass's change detection could read is not in the second pass's
\* changed files and is not uploaded in the second pass; the first pass
\* uploaded it at most once, and once exactly when it found the file changed
\* and loaded it and resolved its folder.
C5_UnchangedNotUploadedAgain ==
    [][ (PassEnds /\ lastPass.n >= 1) =>
            \A f \in SameInBoth(lastPass, lastPass') \cap lastPass.read :
                /\ f \notin Range(lastPass'.changed)
                /\ lastPass'.uploads[f] = 0
                /\ lastPass.uploads[f] <= 1
                /\ lastPass.uploads[f] = 1 <=>
                      (f \in Range(lastPass.changed) /\ f \notin lastPass.skipped)
    ]_vars

\* the second pass is over: it uploaded one changed file and left alone a file
\* that the first pass uploaded and that has the same content still
C5_Witness ==
    /\ UploadsOver
    /\ lastPass.n = 1
    /\ Len(changedFiles) = 1
    /\ UploadCount(reqLog, changedFiles[1]) = 1
    /\ \E f \in Range(allFiles) \cap lastPass.read :
          /\ dashboardsDir[f] = lastPass.content[f]
          /\ lastPass.uploads[f] = 1
          /\ f \notin Range(changedFiles)
          /\ UploadCount(reqLog, f) = 0

\* C6 as claimed: when the folder resolution or the upload of a file failed
\* in a poll cycle, the next poll cycle is a pass whose changed files hold it.
C6_FailedRetriedNextCycle ==
    [][ (pc = "sleep" /\ reqLog' # reqLog) =>
            \A f \in FailedRemotely(reqLog) :
                pc' # "sleep" /\ f \in Range(changedFiles')
    ]_vars

\* a pass in which an upload failed, and one poll cycle later: nothing was
\* sent, and the commit counts as synced
C6_Witness ==
    /\ pc = "sleep"
    /\ lastPass.failed # {}
    /\ \E f \in lastPass.failed : lastPass.uploads[f] = 1
    /\ reqLog = <<>>
    /\ lastCommit = commit
    /\ health.lastError = ""

----------------------------------------------------------------------------
(* Claims about the order and the reach of the reconciler's requests       *)

\* the node of the graph that stands for a folder path
NodeAt(path) == folderGraph.nodes[folderGraph.index[path]]

\* the requests of the log before the i-th that found or created the folder
\* at path
Resolved(log, i, path) ==
    {j \in 1..(i - 1) : log[j].path = path /\ log[j].result \in {"found", "created"}}

\* C11: in every run over a forest, a request for a root carries the empty
\* parent reference; a request for any other node comes only after a request
\* that found or created its parent, and it carries the UID the server gave
\* for the parent in that request, which is the UID the parent's node holds.
C11_ParentBeforeChild ==
    \A i \in 1..Len(reqLog) :
        LET e == reqLog[i]
            before == Resolved(reqLog, i, Dir(e.path))
        IN  IF ~Contains(e.path, "/") THEN e.parentUid = ""
            ELSE /\ before # {}
                 /\ e.parentUid # ""
                 /\ \A j \in before : e.parentUid = UidOf(reqLog[j].id)
                 /\ e.parentUid = NodeAt(Dir(e.path)).UID

\* the chain a/b/c went through: b was created under a's uid and c under b's
C11_Witness ==
    /\ run = "first"
    /\ Len(folderGraph.nodes) = 3
    /\ Len(reqLog) = 6
    /\ \A i \in {2, 4, 6} : reqLog[i].result = "created"
    /\ reqLog[4].parentUid = UidOf(reqLog[2].id)
    /\ reqLog[6].parentUid = UidOf(reqLog[4].id)
    /\ reqLog[6].path = <<"a", "/", "b", "/", "c">>

\* the requests after which CreateFolderTreeFromNode returns an error: a
\* request that failed, and an existence query after a conflict that found
\* nothing
FailsAt(log, i) ==
    \/ log[i].result = "error"
    \/ /\ log[i].result = "notfound"
       /\ i > 1
       /\ log[i - 1].result = "conflict"
       /\ log[i - 1].path = log[i].path

\* the root folder of the tree a path lies in
TreeOf(path) == Split(path, "/")[1]

\* C12, the requests: after a request that makes CreateFolderTreeFromNode
\* fail at a node, the run sends no request for any folder of that root's
\* tree (the node's descendants and later siblings are among them), and the
\* cache holds every folder that was found or created before the failure.
C12_NothingAfterFailure ==
    \A i \in 1..Len(reqLog) :
        FailsAt(reqLog, i) =>
            /\ \A j \in (i + 1)..Len(reqLog) : TreeOf(reqLog[j].path) # TreeOf(reqLog[i].path)
            /\ \A j \in 1..(i - 1) :
                  reqLog[j].result \in {"found", "created"} =>
                      /\ reqLog[j].path \in DOMAIN folders
                      /\ folders[reqLog[j].path] = reqLog[j].id

\* C12, the step: the request that fails makes the call return an error,
\* leaves no call waiting, and changes neither the cache nor any node.
C12_FailureStep ==
    (reqLog' # reqLog /\ reqLog' # <<>> /\ FailsAt(reqLog', Len(reqLog'))) =>
        /\ recRet' = "err"
        /\ pending' = <<>>
        /\ folders' = folders
        /\ folderGraph' = folderGraph

\* C12: fail-fast within a subtree
C12_FailFast == [](C12_NothingAfterFailure) /\ [][C12_FailureStep]_vars

\* folder a was created, the request for its child a/b failed, its later
\* sibling a/c was never asked for, the other root e went through, and the
\* cache still holds a
C12_Witness ==
    /\ run = "first"
    /\ called = Roots(folderGraph)
    /\ Len(reqLog) >= 4
    /\ reqLog[2].result = "created" /\ reqLog[2].path = <<"a">>
    /\ FailsAt(reqLog, 3) /\ Len(reqLog[3].path) = 3
    /\ \A j \in 4..Len(reqLog) : reqLog[j].path = <<"e">>
    /\ reqLog[Len(reqLog)].result = "created"
    /\ <<"a">> \in DOMAIN folders /\ folders[<<"a">>] = reqLog[2].id
    /\ results[folderGraph.index[<<"a">>]] = "err"

\* the existence queries of the pass's log that open a call of
\* CreateFolderTreeFromNode for the folder at path
OpeningQueries(log, path) ==
    {i \in 1..Len(log) :
        /\ log[i].op = "query"
        /\ log[i].path = path
        /\ ~(i > 1 /\ log[i - 1].result = "conflict" /\ log[i - 1].path = path)}

FolderLoopOver == pc \notin {"sleep", "folders"}

\* C13: in a pass, a call of CreateFolderTreeFromNode that carries no parent
\* is a call for a root, no root is called twice, and when the loop over the
\* graph is over every root has been called exactly once, whatever the calls
\* for the other roots returned.
C13_EveryRootOnce ==
    /\ \A i \in 1..Len(reqLog) :
          (reqLog[i].op \in {"query", "create"} /\ reqLog[i].parentUid = "") =>
              folderGraph.index[reqLog[i].path] \in Roots(folderGraph)
    /\ \A n \in GraphNodes(folderGraph) :
          LET opened == OpeningQueries(reqLog, folderGraph.nodes[n].FullPath)
          IN  /\ Cardinality(opened) <= 1
              /\ \A i \in opened : reqLog[i].parentUid = "" <=> n \in Roots(folderGraph)
              /\ (FolderLoopOver /\ n \in Roots(folderGraph)) => Cardinality(opened) = 1

\* two roots: the call for one of them failed at its first request, and the
\* other root's folder was created after that in the same pass
C13_Witness ==
    /\ FolderLoopOver
    /\ Cardinality(Roots(folderGraph)) = 2
    /\ \E r1, r2 \in Roots(folderGraph) :
          /\ r1 # r2
          /\ \E i \in OpeningQueries(reqLog, folderGraph.nodes[r1].FullPath) :
                /\ reqLog[i].result = "error"
                /\ \E j \in (i + 1)..Len(reqLog) :
                      /\ reqLog[j].path = folderGraph.nodes[r2].FullPath
                      /\ reqLog[j].op = "create"
                      /\ reqLog[j].result = "created"

\* the forest is a single chain of nested folders
IsChain ==
    /\ Cardinality(Roots(folderGraph)) = 1
    /\ \A n \in GraphNodes(folderGraph) : Len(folderGraph.nodes[n].Children) <= 1

Queries(log) == {i \in 1..Len(log) : log[i].op = "query"}

\* the server's folders rem hold the folder of node n, under the folder of
\* n's parent
RECURSIVE HeldUids(_, _)
HeldUids(rem, n) ==
    LET node == folderGraph.nodes[n]
        above == {m \in GraphNodes(folderGraph) : n \in Range(folderGraph.nodes[m].Children)}
        parents == IF above = {} THEN {""}
                   ELSE UNION {HeldUids(rem, m) : m \in above}
    IN  {rem[i].uid : i \in {j \in 1..Len(rem) :
            rem[j].title = node.Name /\ rem[j].parentUid \in parents}}

AllExist(rem) == \A n \in GraphNodes(folderGraph) : HeldUids(rem, n) # {}

\* the second run started with every folder of the chain on the server, and
\* nobody has changed the server's folders since
SecondRunAllExist ==
    /\ IsChain
    /\ run # "first"
    /\ AllExist(firstRun.remote)
    /\ remote = firstRun.remote

\* the first run started with no folder on the server, and only the run has
\* changed the server's folders since
FirstRunNoneExist ==
    /\ IsChain
    /\ run = "first"
    /\ NoOtherClientYet

\* C14 as claimed: a run over a chain of n folders that all exist sends
\* exactly n existence queries and no create request; a run over a chain of
\* which no folder exists sends at most n of each.
C14_ChainExactCounts ==
    LET n == Len(folderGraph.nodes)
    IN  /\ (SecondRunAllExist /\ run = "done") =>
              /\ Cardinality(Queries(reqLog)) = n
              /\ Creates(reqLog) = {}
        /\ FirstRunNoneExist =>
              /\ Cardinality(Queries(reqLog)) <= n
              /\ Cardinality(Creates(reqLog)) <= n

\* C14, amended: a run over a chain of n folders that all exist, none of
\* them beside a folder of the same title under the same parent, sends no
\* create request and at most n existence queries, and exactly n when it
\* returns no error; a run over a chain of which no folder exists sends at
\* most n of each.
C14_ChainCounts ==
    LET n == Len(folderGraph.nodes)
    IN  /\ (SecondRunAllExist /\ NoDuplicateFolders(firstRun.remote)) =>
              /\ Cardinality(Queries(reqLog)) <= n
              /\ Creates(reqLog) = {}
              /\ (run = "done" /\ AllRootsOk) => Cardinality(Queries(reqLog)) = n
        /\ FirstRunNoneExist =>
              /\ Cardinality(Queries(reqLog)) <= n
              /\ Cardinality(Creates(reqLog)) <= n

\* the chain a/b/c: the first run sent three queries and three creates, the
\* second three queries that found the three folders
C14_Witness ==
    /\ SecondRunAllExist
    /\ run = "done"
    /\ AllRootsOk
    /\ Len(folderGraph.nodes) = 3
    /\ Len(firstRun.remote) = 3
    /\ Cardinality(Queries(reqLog)) = 3
    /\ Len(reqLog) = 3
    /\ \A i \in 1..3 : reqLog[i].result = "found"

----------------------------------------------------------------------------
(* GetFolderIDByPath on its own: called MaxLookups times, for paths with   *)
(* and without an entry and for the root, on a cache filled beforehand     *)

MaxLookups == 2

LookupPaths == {<<"a">>, <<"a", "/", "b">>, <<"c">>}

\* the caches a client can hold for these folders
LookupCaches == UNION {[D -> 1..MaxID] : D \in SUBSET LookupPaths}

InitLookup ==
    /\ GraphIdle
    /\ HashIdle
    /\ ServerIdle
    /\ folders \in LookupCaches
    /\ pending = <<>>
    /\ recPhase = "idle"
    /\ recRoot = 0
    /\ recRet = "none"
    /\ reqLog = <<>>
    /\ DriverIdle
    /\ LoopIdle

CallGetFolderIDByPath ==
    /\ Len(lookups) < MaxLookups
    /\ \E folderPath \in LookupPaths \cup {<<>>, Dot} :
          lookups' = Append(lookups, [folderPath |-> folderPath,
                                      ret |-> GetFolderIDByPath(folders, folderPath)])
    /\ UNCHANGED <<graphVars, hashVars, serverVars, clientVars, loopVars>>
    /\ UNCHANGED <<run, called, results, firstRun, responderVars, configVars, soloVars>>

SpecLookup == InitLookup /\ [][CallGetFolderIDByPath]_vars

\* C15, the result: the cached ID for a path with an entry, 0 for a path
\* without one and for the root path ("" or ".")
C15_ReturnsEntryOrZero ==
    \A i \in 1..Len(lookups) :
        LET call == lookups[i]
        IN  IF call.folderPath \in {<<>>, Dot} THEN call.ret = 0
            ELSE IF call.folderPath \in DOMAIN folders THEN call.ret = folders[call.folderPath]
            ELSE call.ret = 0

\* C15, the frame: a call sends no request and changes neither the cache,
\* nor a node, nor a folder of the server
C15_ChangesNothing ==
    lookups' # lookups =>
        /\ folders' = folders
        /\ folderGraph' = folderGraph
        /\ reqLog' = reqLog
        /\ remote' = remote

\* C15: GetFolderIDByPath is a pure lookup
C15_PureLookup == [](C15_ReturnsEntryOrZero) /\ [][C15_ChangesNothing]_vars

\* a call for a path with an entry returned its ID, and a call for "."
\* returned 0, the cache holding two entries as before
C15_Witness ==
    /\ Len(lookups) = 2
    /\ Cardinality(DOMAIN folders) = 2
    /\ lookups[1].folderPath \in DOMAIN folders
    /\ lookups[1].ret = folders[lookups[1].folderPath]
    /\ lookups[1].ret > 0
    /\ lookups[2].folderPath = Dot
    /\ lookups[2].ret = 0
    /\ reqLog = <<>>

----------------------------------------------------------------------------
(* Claims about the folder cache and the folder of an upload               *)

\* the last segment of a folder path
Base(path) == Split(path, "/")[Len(Split(path, "/"))]

\* the server's folders rem hold a folder id with the title of path's last
\* segment, under the folder the cache holds for the rest of path
HeldFor(rem, cache, path, id) ==
    \E i \in 1..Len(rem) :
        /\ rem[i].id = id
        /\ rem[i].title = Base(path)
        /\ IF Contains(path, "/")
           THEN /\ Dir(path) \in DOMAIN cache
                /\ rem[i].parentUid = UidOf(cache[Dir(path)])
           ELSE rem[i].parentUid = ""

\* the folder requests a step has added to the log
NewRequests ==
    IF Len(reqLog') > Len(reqLog) /\ SubSeq(reqLog', 1, Len(reqLog)) = reqLog
    THEN SelectSeq(SubSeq(reqLog', Len(reqLog) + 1, Len(reqLog')),
                   LAMBDA e : e.op \in {"query", "create", "odquery", "odcreate"})
    ELSE <<>>

\* C16, the entries: every entry of the cache holds the ID of a folder the
\* server holds with the title of the path's last segment under the folder
\* cached for the path's parent prefix.
C16_EntriesAreServerFolders ==
    \A path \in DOMAIN folders :
        /\ folders[path] > 0
        /\ HeldFor(remote, folders, path, folders[path])

\* C16, the writes: the cache changes only in a step whose request found or
\* created the folder, and then in the entry of that folder's path alone,
\* which takes the ID the server returned; a step whose request failed or
\* found nothing leaves the cache as it was.
C16_WrittenOnAnswerOnly ==
    /\ folders' # folders => Len(NewRequests) = 1
    /\ Len(NewRequests) >= 1 =>
          LET e == NewRequests[1]
          IN  IF e.result \in {"found", "created"}
              THEN /\ e.id > 0
                   /\ folders' = (e.path :> e.id) @@ folders
                   /\ HeldFor(remote', folders', e.path, e.id)
              ELSE folders' = folders

\* C16: the FolderCache invariant
C16_CacheInvariant == [](C16_EntriesAreServerFolders) /\ [][C16_WrittenOnAnswerOnly]_vars

\* the cache holds a and a/b, which the server holds one under the other,
\* and no entry for c, whose existence query failed in this pass
C16_Witness ==
    /\ <<"a", "/", "b">> \in DOMAIN folders
    /\ HeldFor(remote, folders, <<"a", "/", "b">>, folders[<<"a", "/", "b">>])
    /\ <<"c">> \notin DOMAIN folders
    /\ \E i \in 1..Len(reqLog) :
          /\ reqLog[i].path = <<"c">>
          /\ reqLog[i].op \in {"query", "odquery"}
          /\ reqLog[i].result = "error"

\* the folder path LoadDashboard gives the file
FolderPathOf(f) == LoadDashboard(f, dashboardsDir, BaseDir).FolderPath

\* the step is the one that follows a successful LoadDashboard of the
\* current file
ResolvesFolder ==
    /\ pc = "load"
    /\ upIdx <= Len(changedFiles)
    /\ pc' # "load"

\* C17, the step: for a dashboard with a folder path, a path with a cache
\* entry gives the upload that entry's ID without any request; a path without
\* one starts CreateFolderTree for that path.
C17_ResolutionStep ==
    (ResolvesFolder /\ FolderPathOf(CurFile) # <<>>) =>
        IF FolderPathOf(CurFile) \in DOMAIN folders
        THEN /\ pc' = "send"
             /\ folderID' = folders[FolderPathOf(CurFile)]
             /\ reqLog' = reqLog
             /\ remote' = remote
        ELSE /\ pc' = "odquery"
             /\ od'.parts = Split(FolderPathOf(CurFile), "/")
             /\ od'.i = 1
             /\ reqLog' = reqLog

\* C17, the log: a dashboard whose folder could not be resolved is not
\* uploaded in the pass, and every upload carries the ID the cache holds for
\* the dashboard's folder path.
C17_NoUploadWithoutFolder ==
    /\ \A f \in LogPaths(reqLog, "resolve", "error") : UploadCount(reqLog, f) = 0
    /\ \A i \in 1..Len(reqLog) :
          (reqLog[i].op = "upload" /\ FolderPathOf(reqLog[i].path) # <<>>) =>
              /\ FolderPathOf(reqLog[i].path) \in DOMAIN folders
              /\ reqLog[i].id = folders[FolderPathOf(reqLog[i].path)]

\* C17: folder resolution for upload
C17_FolderResolution == [](C17_NoUploadWithoutFolder) /\ [][C17_ResolutionStep]_vars

\* one dashboard's folder failed in the tree walk and again on demand, and
\* the dashboard was not uploaded; another's folder was cached by the tree
\* walk, no request on demand was sent for it, and its upload carried the
\* cached ID
C17_Witness ==
    /\ UploadsOver
    /\ \E f, g \in Range(changedFiles) :
          /\ f \in LogPaths(reqLog, "resolve", "error")
          /\ UploadCount(reqLog, f) = 0
          /\ \E i \in 1..Len(reqLog) :
                /\ reqLog[i].op = "odquery"
                /\ reqLog[i].result = "error"
          /\ FolderPathOf(g) \in DOMAIN folders
          /\ \E i \in 1..Len(reqLog) :
                /\ reqLog[i] = Request("upload", g, "", "ok", folders[FolderPathOf(g)])
                /\ \A j \in 1..Len(reqLog) :
                      reqLog[j].op \in {"odquery", "odcreate"} =>
                          reqLog[j].path # FolderPathOf(g)

----------------------------------------------------------------------------
(* The poll loop on a server that other clients change too: they create or *)
(* delete a folder MaxExt times, at any moment; no request of the process   *)
(* is lost and no file operation fails                                      *)

InitOpen ==
    /\ repo \in {[n |-> 1, files |-> fs] : fs \in RepoStates}
    /\ lastCommit = ""
    /\ commit = ""
    /\ pc = "sleep"
    /\ dashboardsDir = NoEntries
    /\ allFiles = <<>>
    /\ changedFiles = <<>>
    /\ upIdx = 0
    /\ od = NoOd
    /\ folderID = 0
    /\ health = SetGitSyncHealth(SetGrafanaHealth(NewChecker, TRUE), TRUE)
    /\ lastPass = NoPass
    /\ remote = <<>>
    /\ nextID = 1
    /\ rejectsDuplicates \in BOOLEAN
    /\ extLeft = MaxExt
    /\ faults = [limited |-> TRUE, left |-> 0]
    /\ GraphIdle
    /\ HashIdle
    /\ ClientIdle
    /\ DriverIdle

NextOpen ==
    \/ CycleNoNewCommit
    \/ CycleNoChanges
    \/ CyclePassStarts
    \/ SyncCallRoot
    \/ ReconcileStep
    \/ SyncRootReturned
    \/ UploadLoad
    \/ OdStep
    \/ UploadSend
    \/ PassEnd
    \/ OtherClient

SpecOpen == InitOpen /\ [][NextOpen]_vars

\* the cache holds for path the ID of a folder the server no longer holds
Stale(cache, rem, path) == path \in DOMAIN cache /\ cache[path] \notin RemoteIds(rem)

\* the step sends the upload of the current file
SendsUpload == pc = "send" /\ pc' # "send"

\* C18 as claimed: when the folder cached for a dashboard's folder path at
\* the end of the latest pass is gone from the server, the upload of the
\* dashboard carries that folder's ID and fails.
C18_NextUploadCarriesStaleID ==
    [][ (/\ SendsUpload
         /\ FolderPathOf(CurFile) \in DOMAIN lastPass.folders
         /\ lastPass.folders[FolderPathOf(CurFile)] \notin RemoteIds(remote)) =>
            LET e == reqLog'[Len(reqLog')]
            IN  /\ e.op = "upload"
                /\ e.id = lastPass.folders[FolderPathOf(CurFile)]
                /\ e.result = "error"
    ]_vars

\* C18, amended, the lookup: a cache entry whose folder is gone is taken for
\* the upload as it is, without a request
C18_LookupTakesStaleID ==
    (ResolvesFolder /\ Stale(folders, remote, FolderPathOf(CurFile))) =>
        /\ pc' = "send"
        /\ folderID' = folders[FolderPathOf(CurFile)]
        /\ reqLog' = reqLog

\* C18, amended, the upload: the upload carries the ID the lookup gave; when
\* the server holds no folder of that ID the upload fails, the error is
\* stored in the health checker, and the loop goes on to the next file
C18_StaleUploadFails ==
    SendsUpload =>
        LET e == reqLog'[Len(reqLog')]
        IN  /\ e.op = "upload" /\ e.path = CurFile /\ e.id = folderID
            /\ (folderID # 0 /\ folderID \notin RemoteIds(remote)) =>
                  /\ e.result = "error"
                  /\ health'.lastError # ""
            /\ pc' = "load"
            /\ upIdx' = upIdx + 1

\* C18, amended, the repair: an entry whose folder is gone changes only when
\* an existence query or a create request of the process, in the tree walk
\* or on demand, returns a folder for its path; it then takes that folder's ID
C18_RepairedByRequestOnly ==
    \A path \in DOMAIN folders :
        (Stale(folders, remote, path) /\ folders'[path] # folders[path]) =>
            /\ Len(NewRequests) = 1
            /\ NewRequests[1].path = path
            /\ NewRequests[1].result \in {"found", "created"}
            /\ folders'[path] = NewRequests[1].id
            /\ ~Stale(folders', remote', path)

\* C18, amended
C18_StaleEntryUsedUntilRequeried ==
    [][C18_LookupTakesStaleID /\ C18_StaleUploadFails /\ C18_RepairedByRequestOnly]_vars

\* another client deleted a folder after the tree walk had cached it: the
\* dashboard's upload carried the ID of the folder that is gone and failed,
\* and the loop has gone on
C18_Witness ==
    /\ pc = "load"
    /\ reqLog # <<>>
    /\ LET e == reqLog[Len(reqLog)]
       IN  /\ e.op = "upload"
           /\ e.result = "error"
           /\ e.id > 0
           /\ e.id \notin RemoteIds(remote)
           /\ Stale(folders, remote, FolderPathOf(e.path))
           /\ folders[FolderPathOf(e.path)] = e.id
    /\ health.lastError = "upload"

----------------------------------------------------------------------------
(* The health Checker on its own: its setters called in any order with any *)
(* values, times up to MaxTime                                              *)

MaxTime == 5

\* what main passes to SetLastError: the error of a fetch, a copy, a folder
\* tree, an upload, and "" at the end of a pass
HealthErrors == {"", "fetch", "copy", "folder", "upload"}

\* health.NewChecker(): neither check is up
InitHealth == GraphIdle /\ HashIdle /\ ServerIdle /\ ClientIdle /\ DriverIdle /\ LoopIdle

HealthFrame ==
    UNCHANGED <<graphVars, hashVars, serverVars, clientVars, driverVars, repo, lastCommit,
                commit, pc, dashboardsDir, allFiles, changedFiles, upIdx, od, folderID,
                lastPass>>

CallSetGrafanaHealth ==
    /\ mu = 0
    /\ \E healthy \in BOOLEAN : health' = SetGrafanaHealth(health, healthy)
    /\ HealthFrame

CallSetGitSyncHealth ==
    /\ mu = 0
    /\ \E healthy \in BOOLEAN : health' = SetGitSyncHealth(health, healthy)
    /\ HealthFrame

CallSetLastSync ==
    /\ mu = 0
    /\ \E t \in 0..MaxTime : health' = SetLastSync(health, t)
    /\ HealthFrame

CallSetLastError ==
    /\ mu = 0
    /\ \E err \in HealthErrors : health' = SetLastError(health, err)
    /\ HealthFrame

NextHealth ==
    \/ CallSetGrafanaHealth
    \/ CallSetGitSyncHealth
    \/ CallSetLastSync
    \/ CallSetLastError

SpecHealth == InitHealth /\ [][NextHealth]_vars

\* C19: GetStatus reports "healthy" exactly when both checks are up,
\* "degraded" exactly when one of the two is, "unhealthy" exactly when none
\* is, as in the initial state; the handler answers 503 exactly when the
\* status is "unhealthy" and 200 otherwise.
C19_StatusMapping ==
    LET status == GetStatus(health).Status
        g == health.grafanaHealthy
        s == health.gitSyncHealthy
        code == Handler(health).code
    IN  /\ status = "healthy" <=> (g /\ s)
        /\ status = "degraded" <=> (g # s)
        /\ status = "unhealthy" <=> (~g /\ ~s)
        /\ GetStatus(NewChecker).Status = "unhealthy"
        /\ code = 503 <=> status = "unhealthy"
        /\ code # 503 => code = 200
        /\ Handler(health).body = GetStatus(health)

\* Grafana answered and the pull has failed: the status is "degraded" and
\* the handler answers 200
C19_Witness ==
    /\ health.grafanaHealthy
    /\ ~health.gitSyncHealthy
    /\ health.lastError = "fetch"
    /\ GetStatus(health).Status = "degraded"
    /\ Handler(health).code = 200

----------------------------------------------------------------------------
(* Claims about what the health checker holds after a pass                 *)

\* the requests of a pass's log that are a failed folder-tree creation, in
\* the tree walk or on demand, or a failed upload
PassFailures(log) ==
    {i \in 1..Len(log) :
        \/ log[i].op \in {"query", "create", "odquery", "odcreate"} /\ FailsAt(log, i)
        \/ log[i].op \in {"resolve", "upload"} /\ log[i].result = "error"}

\* C20 as claimed: when a folder-tree creation or an upload failed in a sync
\* pass, the health checker's last error is not empty once the pass is over.
C20_FailureLeavesLastError ==
    [][ (pc = "load" /\ pc' = "sleep" /\ PassFailures(reqLog) # {}) =>
            health'.lastError # ""
    ]_vars

\* a pass is over in which the tree walk failed for a root and an upload
\* failed: the last error is empty and the time of the last sync is the end
\* of this pass
C20_Witness ==
    /\ pc = "sleep"
    /\ lastCommit = commit
    /\ \E i, j \in PassFailures(reqLog) :
          /\ reqLog[i].op = "query"
          /\ reqLog[j].op = "upload"
    /\ health.lastError = ""
    /\ health.lastSyncTime = lastPass.n
    /\ GetStatus(health).Status = "healthy"

\* the requests to the Grafana API that a pass's log holds as failed
GrafanaFailures(log) ==
    {i \in 1..Len(log) :
        /\ log[i].op \in {"query", "create", "odquery", "odcreate", "upload"}
        /\ log[i].result = "error"}

\* C21 as claimed: once a sync pass in which requests to the Grafana API
\* failed is over, the checker's grafanaHealthy is false and the status it
\* reports is not "healthy".
C21_GrafanaFailureShows ==
    [][ (pc = "load" /\ pc' = "sleep" /\ GrafanaFailures(reqLog) # {}) =>
            /\ ~health'.grafanaHealthy
            /\ GetStatus(health').Status # "healthy"
    ]_vars

\* a pass is over in which every request to the Grafana API failed: the
\* checker still holds Grafana for healthy and reports "healthy"
C21_Witness ==
    /\ pc = "sleep"
    /\ lastCommit = commit
    /\ GrafanaFailures(reqLog) # {}
    /\ \A i \in 1..Len(reqLog) :
          reqLog[i].op \in {"query", "create", "odquery", "odcreate", "upload"} =>
              reqLog[i].result = "error"
    /\ health.grafanaHealthy
    /\ GetStatus(health).Status = "healthy"
    /\ Handler(health).code = 200

----------------------------------------------------------------------------
(* The health responder beside the sync loop: a GetStatus call, field by   *)
(* field under the read lock, while the setters are called in any order    *)

ResponderFrame ==
    UNCHANGED <<graphVars, hashVars, serverVars, clientVars, run, called, results,
                firstRun, lookups, configVars, soloVars, loopVars>>

\* GetStatus that takes no lock
GetStatusRLockNone ==
    /\ getPc = "idle"
    /\ getPc' = "if1"
    /\ getSt' = [NoStatus EXCEPT !.Status = "healthy"]
    /\ UNCHANGED <<mu, served>>
    /\ ResponderFrame

\* c.mu.RLock(); status := "healthy"
GetStatusRLock ==
    /\ getPc = "idle"
    /\ mu' = mu + 1
    /\ getPc' = "if1"
    /\ getSt' = [NoStatus EXCEPT !.Status = "healthy"]
    /\ UNCHANGED served
    /\ ResponderFrame

\* if !c.grafanaHealthy || !c.gitSyncHealthy
GetStatusIfOneDown ==
    /\ getPc = "if1"
    /\ getSt' = IF ~health.grafanaHealthy \/ ~health.gitSyncHealthy
                THEN [getSt EXCEPT !.Status = "degraded"] ELSE getSt
    /\ getPc' = "if2"
    /\ UNCHANGED <<mu, served>>
    /\ ResponderFrame

\* if !c.grafanaHealthy && !c.gitSyncHealthy
GetStatusIfBothDown ==
    /\ getPc = "if2"
    /\ getSt' = IF ~health.grafanaHealthy /\ ~health.gitSyncHealthy
                THEN [getSt EXCEPT !.Status = "unhealthy"] ELSE getSt
    /\ getPc' = "flags"
    /\ UNCHANGED <<mu, served>>
    /\ ResponderFrame

\* GrafanaHealthy: c.grafanaHealthy, GitSyncHealthy: c.gitSyncHealthy
GetStatusFlags ==
    /\ getPc = "flags"
    /\ getSt' = [getSt EXCEPT !.GrafanaHealthy = health.grafanaHealthy,
                              !.GitSyncHealthy = health.gitSyncHealthy]
    /\ getPc' = "rest"
    /\ UNCHANGED <<mu, served>>
    /\ ResponderFrame

\* LastSyncTime: c.lastSyncTime, LastError: c.lastError
GetStatusRest ==
    /\ getPc = "rest"
    /\ getSt' = [getSt EXCEPT !.LastSyncTime = health.lastSyncTime,
                              !.LastError = health.lastError]
    /\ getPc' = "return"
    /\ UNCHANGED <<mu, served>>
    /\ ResponderFrame

\* return, and the deferred c.mu.RUnlock()
GetStatusReturn ==
    /\ getPc = "return"
    /\ served' = getSt
    /\ getSt' = NoStatus
    /\ getPc' = "idle"
    /\ mu' = mu - 1
    /\ ResponderFrame

NextResponder ==
    \/ CallSetGrafanaHealth
    \/ CallSetGitSyncHealth
    \/ CallSetLastSync
    \/ CallSetLastError
    \/ GetStatusRLock
    \/ GetStatusIfOneDown
    \/ GetStatusIfBothDown
    \/ GetStatusFlags
    \/ GetStatusRest
    \/ GetStatusReturn

SpecResponder == InitHealth /\ [][NextResponder]_vars

\* C22, the Status: the status string of every Status returned fits the
\* Status's own two flags
C22_StatusFitsOwnFlags ==
    served # NoStatus =>
        served.Status = (IF served.GrafanaHealthy /\ served.GitSyncHealthy THEN "healthy"
                         ELSE IF served.GrafanaHealthy \/ served.GitSyncHealthy THEN "degraded"
                         ELSE "unhealthy")

\* C22, the call: no setter takes effect between the first and the last step
\* of a GetStatus call, the Status returned is the one of the Checker's state
\* at that moment, and no step of the call changes the Checker, the folder
\* cache or the hash table
C22_CallSeesOneState ==
    /\ getPc # "idle" => health' = health
    /\ (getPc = "return" /\ getPc' = "idle") => served' = GetStatus(health)
    /\ responderVars' # responderVars =>
          /\ health' = health
          /\ folders' = folders
          /\ fileHashes' = fileHashes

\* C22: health state under concurrency
C22_AtomicSnapshot == [](C22_StatusFitsOwnFlags) /\ [][C22_CallSeesOneState]_vars

\* a call returned "degraded" with an error, the sync loop has since set
\* both flags and cleared the error, and a second call is under way
C22_Witness ==
    /\ served.Status = "degraded"
    /\ served.LastError = "fetch"
    /\ served.GrafanaHealthy /\ ~served.GitSyncHealthy
    /\ health.gitSyncHealthy
    /\ health.lastError = ""
    /\ getPc = "rest"
    /\ getSt.Status = "healthy"
    /\ mu = 1

----------------------------------------------------------------------------
(* Claims about the hash table's entries                                   *)

\* C23: after a call HasFileChanged(path, content), whatever it returned, the
\* table holds the hash of content for path and for every other path what it
\* held before; no entry goes away.
C23_EntrySetOthersKept ==
    [][ /\ DOMAIN fileHashes \subseteq DOMAIN fileHashes'
        /\ hashCalls' # hashCalls =>
              LET call == hashCalls'[Len(hashCalls')]
              IN  /\ DOMAIN fileHashes' = DOMAIN fileHashes \cup {call.path}
                  /\ fileHashes'[call.path] = computeFileHash(call.content)
                  /\ \A p \in DOMAIN fileHashes \ {call.path} :
                        fileHashes'[p] = fileHashes[p]
    ]_vars

\* three calls: the first two recorded two paths, the third, for the first
\* path with the content it had, returned false, and the table holds both
\* paths with the hashes of the contents passed
C23_Witness ==
    /\ Len(hashCalls) = 3
    /\ hashCalls[1].path # hashCalls[2].path
    /\ hashCalls[3].path = hashCalls[1].path
    /\ hashCalls[3].content = hashCalls[1].content
    /\ ~hashCalls[3].ret
    /\ DOMAIN fileHashes = HashPaths
    /\ fileHashes[hashCalls[3].path] = computeFileHash(hashCalls[3].content)
    /\ fileHashes[hashCalls[2].path] = computeFileHash(hashCalls[2].content)

\* the step is a poll cycle's CopyDashboards and GetChangedFiles
Detects == pc = "sleep" /\ (pc' # "sleep" \/ lastPass'.n = lastPass.n + 1)

\* the elements of seq that are in S, in seq's order
Keep(seq, S) == SelectSeq(seq, LAMBDA f : f \in S)

\* C24: GetChangedFiles returns no error; the files it returns are, in the
\* order of its input, the readable files whose hash the table did not hold;
\* a file it could not read keeps the entry it had, or none, and every
\* readable file has the hash of its content in the table afterwards; when it
\* returns a file the pass goes on.
C24_BatchNeverFails ==
    [][ Detects =>
          LET unread == LogPaths(reqLog', "read", "error")
              new == {f \in Range(allFiles') \ unread :
                         \/ f \notin DOMAIN fileHashes
                         \/ fileHashes[f] # computeFileHash(dashboardsDir'[f])}
          IN  /\ ~GetChangedFiles(fileHashes, allFiles', dashboardsDir', unread).err
              /\ changedFiles' = Keep(allFiles', new)
              /\ \A f \in unread :
                    /\ f \in DOMAIN fileHashes' <=> f \in DOMAIN fileHashes
                    /\ f \in DOMAIN fileHashes => fileHashes'[f] = fileHashes[f]
              /\ \A f \in Range(allFiles') \ unread :
                    /\ f \in DOMAIN fileHashes'
                    /\ fileHashes'[f] = computeFileHash(dashboardsDir'[f])
              /\ changedFiles' # <<>> => pc' \in {"folders", "load"}
    ]_vars

\* the first of two files could not be read and has no entry, the second
\* was classified as changed and the pass has started
C24_Witness ==
    /\ pc = "folders"
    /\ Len(allFiles) = 2
    /\ reqLog = <<Request("read", allFiles[1], "", "error", 0)>>
    /\ changedFiles = <<allFiles[2]>>
    /\ allFiles[1] \notin DOMAIN fileHashes
    /\ allFiles[2] \in DOMAIN fileHashes

----------------------------------------------------------------------------
(* CopyDashboards on its own: a Service made with NewService for a         *)
(* repository directory, a GIT_REPO_SUBDIR and the dashboards directory,   *)
(* called once on a clone that holds any of four dashboard files           *)

\* the values of cfg.RepoSubdir: unset, ".", "s" and "s/t"
Subdirs == {<<>>, Dot, <<"s">>, <<"s", "/", "t">>}

\* /r/o/x, /r/s/t/x, /r/s/x and /r/x, in the order filepath.Walk visits them
CopyFiles ==
    << <<"/", "r", "/", "o", "/", "x">>,
       <<"/", "r", "/", "s", "/", "t", "/", "x">>,
       <<"/", "r", "/", "s", "/", "x">>,
       <<"/", "r", "/", "x">> >>

CopyRepoStates == UNION {[S -> DashboardContents] : S \in SUBSET Range(CopyFiles)}

InitCopy ==
    /\ GraphIdle /\ HashIdle /\ ServerIdle /\ ClientIdle /\ CallsIdle /\ PassIdle
    /\ env = NoEnv
    /\ cfgRet = NoCall
    /\ \E subdir \in Subdirs :
          cfg = [ZeroConfig EXCEPT !.RepoDir = RepoDir, !.RepoSubdir = subdir,
                                   !.DashboardsDir = BaseDir]
    /\ \E fs \in CopyRepoStates : repo = [n |-> 1, files |-> fs]

CallCopyDashboards ==
    /\ cfgRet = NoCall
    /\ LET copies == CopyDashboards(CopyFiles, repo.files, cfg.RepoDir, cfg.RepoSubdir,
                                    cfg.DashboardsDir)
       IN  /\ dashboardsDir' = WriteFiles(dashboardsDir, copies)
           /\ allFiles' = [i \in 1..Len(copies) |-> copies[i].destPath]
    /\ cfgRet' = [op |-> "CopyDashboards"]
    /\ UNCHANGED <<graphVars, hashVars, serverVars, clientVars, run, called, results,
                   firstRun, lookups, responderVars, env, cfg, soloVars, repo, lastCommit,
                   commit,
                   pc, changedFiles, upIdx, od, folderID, health, lastPass>>

SpecCopy == InitCopy /\ [][CallCopyDashboards]_vars

\* path is below the directory dir
IsUnder(dir, path) ==
    /\ Len(path) > Len(dir) + 1
    /\ SubSeq(path, 1, Len(dir) + 1) = dir \o Slash

\* C25: with a subdirectory configured, every path CopyDashboards returns is
\* a file of the dashboards directory at the path some file of
\* repoDir/subdir has below repoDir/subdir, and the dashboards directory
\* holds nothing else.
C25_OnlySubdirSynced ==
    (cfgRet.op = "CopyDashboards" /\ cfg.RepoSubdir \notin {<<>>, Dot}) =>
        LET srcDir == cfg.RepoDir \o Slash \o cfg.RepoSubdir
            under == {p \in DOMAIN repo.files : IsUnder(srcDir, p)}
            dests == {cfg.DashboardsDir \o SubSeq(p, Len(srcDir) + 1, Len(p)) : p \in under}
        IN  /\ Range(allFiles) \subseteq dests
            /\ \A f \in Range(allFiles) :
                  /\ IsUnder(cfg.DashboardsDir, f)
                  /\ f \in DOMAIN dashboardsDir
            /\ DOMAIN dashboardsDir \subseteq dests

\* the subdirectory is s, the clone holds /r/o/x outside it, and
\* CopyDashboards wrote and returned /o/x, outside the dashboards directory
C25_Witness ==
    /\ cfgRet.op = "CopyDashboards"
    /\ cfg.RepoSubdir = <<"s">>
    /\ <<"/", "r", "/", "o", "/", "x">> \in DOMAIN repo.files
    /\ <<"/", "o", "/", "x">> \in DOMAIN dashboardsDir
    /\ <<"/", "o", "/", "x">> \in Range(allFiles)
    /\ ~IsUnder(cfg.DashboardsDir, <<"/", "o", "/", "x">>)

----------------------------------------------------------------------------
(* pkg/config: Load, validate and SafeForLog                               *)

UpperCase == <<"A", "B", "C", "D", "E", "F", "G", "H", "I", "J", "K", "L", "M", "N", "O", "P", "Q", "R", "S", "T", "U", "V", "W", "X", "Y", "Z">>
LowerCase == <<"a", "b", "c", "d", "e", "f", "g", "h", "i", "j", "k", "l", "m", "n", "o", "p", "q", "r", "s", "t", "u", "v", "w", "x", "y", "z">>

\* strings.ToLower, for the ASCII letters of the field names
ToLower(s) ==
    [i \in 1..Len(s) |->
        IF \E k \in 1..Len(UpperCase) : UpperCase[k] = s[i]
        THEN LowerCase[CHOOSE k \in 1..Len(UpperCase) : UpperCase[k] = s[i]]
        ELSE s[i]]

\* strings.Contains(s, substr)
StringsContains(s, substr) ==
    \E i \in 1..(Len(s) - Len(substr) + 1) : SubSeq(s, i, i + Len(substr) - 1) = substr

\* the fields of Config, with the letters of their names
FieldName ==
    [RepoURL |-> <<"R", "e", "p", "o", "U", "R", "L">>,
     Branch |-> <<"B", "r", "a", "n", "c", "h">>,
     SSHKey |-> <<"S", "S", "H", "K", "e", "y">>,
     HTTPSUser |-> <<"H", "T", "T", "P", "S", "U", "s", "e", "r">>,
     HTTPSPassword |-> <<"H", "T", "T", "P", "S", "P", "a", "s", "s", "w", "o", "r", "d">>,
     RepoDir |-> <<"R", "e", "p", "o", "D", "i", "r">>,
     RepoSubdir |-> <<"R", "e", "p", "o", "S", "u", "b", "d", "i", "r">>,
     DashboardsDir |-> <<"D", "a", "s", "h", "b", "o", "a", "r", "d", "s", "D", "i", "r">>,
     PollInterval |-> <<"P", "o", "l", "l", "I", "n", "t", "e", "r", "v", "a", "l">>,
     GrafanaURL |-> <<"G", "r", "a", "f", "a", "n", "a", "U", "R", "L">>,
     GrafanaUser |-> <<"G", "r", "a", "f", "a", "n", "a", "U", "s", "e", "r">>,
     GrafanaPass |-> <<"G", "r", "a", "f", "a", "n", "a", "P", "a", "s", "s">>,
     GrafanaToken |-> <<"G", "r", "a", "f", "a", "n", "a", "T", "o", "k", "e", "n">>]

\* reflect: the Kind of a field's value is String
IsStringField(f) == f # "PollInterval"

sensitivePatterns ==
    <<<<"p", "a", "s", "s", "w", "o", "r", "d">>,
      <<"p", "a", "s", "s">>,
      <<"t", "o", "k", "e", "n">>,
      <<"s", "e", "c", "r", "e", "t">>,
      <<"k", "e", "y">>,
      <<"p", "r", "i", "v", "a", "t", "e">>,
      <<"c", "r", "e", "d", "e", "n", "t", "i", "a", "l">>,
      <<"s", "s", "h">>,
      <<"c", "e", "r", "t">>>>

isSensitive(f) ==
    \E k \in 1..Len(sensitivePatterns) :
        StringsContains(ToLower(FieldName[f]), sensitivePatterns[k])

Masked == <<"*", "*", "*">>

\* maskSensitiveFields on a Config: a new struct, field by field
maskSensitiveFields(input) ==
    [f \in DOMAIN input |->
        IF isSensitive(f) /\ IsStringField(f) /\ input[f] # <<>>
        THEN Masked
        ELSE input[f]]

\* Config.SafeForLog
SafeForLog(c) == maskSensitiveFields(c)

\* validate that asks for no Grafana authentication
validateGitOnly(c) ==
    LET hasSSH == c.SSHKey # <<>>
        hasHTTPS == c.HTTPSUser # <<>> /\ c.HTTPSPassword # <<>>
    IN  IF ~hasSSH /\ ~hasHTTPS THEN "no Git authentication provided" ELSE ""

\* Config.validate: the error it returns, "" for nil
validate(c) ==
    LET hasSSH == c.SSHKey # <<>>
        hasHTTPS == c.HTTPSUser # <<>> /\ c.HTTPSPassword # <<>>
        hasBasicAuth == c.GrafanaUser # <<>> /\ c.GrafanaPass # <<>>
        hasToken == c.GrafanaToken # <<>>
    IN  IF ~hasSSH /\ ~hasHTTPS THEN "no Git authentication provided"
        ELSE IF ~hasBasicAuth /\ ~hasToken THEN "no Grafana authentication provided"
        ELSE ""

\* getEnv: the value of the variable, the default when it is unset or empty
getEnv(e, key, defaultVal) == IF e[key] = <<>> THEN defaultVal ELSE e[key]

Digits == <<"0", "1", "2", "3", "4", "5", "6", "7", "8", "9">>

RECURSIVE DecimalValue(_, _)
DecimalValue(ds, acc) ==
    IF ds = <<>> THEN acc
    ELSE DecimalValue(Tail(ds),
                      10 * acc + (CHOOSE k \in 1..Len(Digits) : Digits[k] = Head(ds)) - 1)

\* strconv.Atoi for strings short enough to stay within int: an optional
\* sign, then one decimal digit or more
Atoi(s) ==
    LET signed == s # <<>> /\ Head(s) \in {"+", "-"}
        ds == IF signed THEN Tail(s) ELSE s
    IN  IF ds = <<>> \/ \E i \in 1..Len(ds) : ~Contains(Digits, ds[i])
        THEN [err |-> TRUE, n |-> 0]
        ELSE [err |-> FALSE,
              n |-> IF signed /\ Head(s) = "-" THEN 0 - DecimalValue(ds, 0)
                    ELSE DecimalValue(ds, 0)]

DefaultDir == <<"/", "t", "m", "p", "/", "g", "r", "a", "f", "a", "n", "a", "_", "d", "a", "t", "a">>
DefaultPollInterval == <<"6", "0">>

\* Load: "fatal" when getEnvRequired ends the process with log.Fatalf,
\* "error" when Load returns an error, "ok" with the Config it returns
Load(e) ==
    LET c == [RepoURL |-> e["GIT_REPO_URL"],
              Branch |-> e["GIT_BRANCH"],
              SSHKey |-> e["GIT_SSH_KEY"],
              HTTPSUser |-> e["GIT_HTTPS_USER"],
              HTTPSPassword |-> e["GIT_HTTPS_PASS"],
              RepoDir |-> getEnv(e, "GIT_LOCAL_REPO_DIR", DefaultDir),
              RepoSubdir |-> getEnv(e, "GIT_REPO_SUBDIR", <<>>),
              DashboardsDir |-> getEnv(e, "DASHBOARDS_DIR", DefaultDir),
              PollInterval |-> 0,
              GrafanaURL |-> e["GRAFANA_URL"],
              GrafanaUser |-> getEnv(e, "GF_SECURITY_ADMIN_USER", <<>>),
              GrafanaPass |-> getEnv(e, "GF_SECURITY_ADMIN_PASSWORD", <<>>),
              GrafanaToken |-> getEnv(e, "GF_SECURITY_TOKEN", <<>>)]
        pollIntervalSec == Atoi(getEnv(e, "POLL_INTERVAL_SEC", DefaultPollInterval))
        loaded == [c EXCEPT !.PollInterval = pollIntervalSec.n]
    IN  IF \E key \in {"GIT_REPO_URL", "GIT_BRANCH", "GRAFANA_URL"} : e[key] = <<>>
        THEN [outcome |-> "fatal", cfg |-> ZeroConfig]
        ELSE IF pollIntervalSec.err \/ pollIntervalSec.n <= 0
        THEN [outcome |-> "error", cfg |-> ZeroConfig]
        ELSE IF validate(loaded) # ""
        THEN [outcome |-> "error", cfg |-> ZeroConfig]
        ELSE [outcome |-> "ok", cfg |-> loaded]

(* pkg/config on its own: Load on any environment of Envs, and validate    *)
(* and SafeForLog on any Config of Configs or on the Config Load returned  *)

\* a value that is set, or not
Values == {<<>>, <<"v">>}

\* no URL, a URL without and a URL with user:password
RepoURLs == {<<>>, <<"s", ":", "/", "/", "h">>, <<"s", ":", "/", "/", "u", ":", "p", "@", "h">>}

\* unset, "30", "0", "-5", "+5", "x", "3x" and "-"
PollIntervals == {<<>>, <<"3", "0">>, <<"0">>, <<"-", "5">>, <<"+", "5">>, <<"x">>, <<"3", "x">>, <<"-">>}

Envs ==
    [GIT_REPO_URL : RepoURLs, GIT_BRANCH : Values, GIT_SSH_KEY : Values,
     GIT_HTTPS_USER : Values, GIT_HTTPS_PASS : Values,
     GIT_LOCAL_REPO_DIR : {<<>>, RepoDir}, GIT_REPO_SUBDIR : {<<>>},
     DASHBOARDS_DIR : {<<>>}, GRAFANA_URL : Values, GF_SECURITY_ADMIN_USER : Values,
     GF_SECURITY_ADMIN_PASSWORD : Values, GF_SECURITY_TOKEN : Values,
     POLL_INTERVAL_SEC : PollIntervals]

\* the Config literals: a field is set or left at its zero value
Configs ==
    [RepoURL : RepoURLs, Branch : Values, SSHKey : Values, HTTPSUser : Values,
     HTTPSPassword : Values, RepoDir : {RepoDir}, RepoSubdir : {<<>>},
     DashboardsDir : {<<>>}, PollInterval : {0, 60}, GrafanaURL : Values,
     GrafanaUser : Values, GrafanaPass : Values, GrafanaToken : Values]

InitConfig ==
    /\ GraphIdle /\ HashIdle /\ ServerIdle /\ ClientIdle /\ CallsIdle /\ LoopIdle
    /\ cfgRet = NoCall
    /\ \/ env \in Envs /\ cfg = ZeroConfig
       \/ env = NoEnv /\ cfg \in Configs

ConfigFrame ==
    UNCHANGED <<graphVars, hashVars, serverVars, clientVars, run, called, results,
                firstRun, lookups, responderVars, soloVars, loopVars>>

\* config.Load() on the environment, as main calls it first
CallLoad ==
    /\ cfgRet = NoCall
    /\ cfg = ZeroConfig
    /\ LET r == Load(env)
       IN  /\ cfgRet' = [op |-> "Load", outcome |-> r.outcome]
           /\ cfg' = r.cfg
    /\ UNCHANGED env
    /\ ConfigFrame

\* c.validate() on a Config literal
CallValidate ==
    /\ cfgRet = NoCall
    /\ cfgRet' = [op |-> "validate", err |-> validate(cfg)]
    /\ UNCHANGED <<env, cfg>>
    /\ ConfigFrame

\* c.SafeForLog() on a Config literal or on the Config Load returned
CallSafeForLog ==
    /\ \/ cfgRet = NoCall
       \/ cfgRet = [op |-> "Load", outcome |-> "ok"]
    /\ cfgRet' = [op |-> "SafeForLog", ret |-> SafeForLog(cfg)]
    /\ UNCHANGED <<env, cfg>>
    /\ ConfigFrame

NextConfig == CallLoad \/ CallValidate \/ CallSafeForLog

SpecConfig == InitConfig /\ [][NextConfig]_vars

\* the Config holds no Git authentication
NoGitAuth(c) == c.SSHKey = <<>> /\ ~(c.HTTPSUser # <<>> /\ c.HTTPSPassword # <<>>)

\* the Config holds no Grafana authentication
NoGrafanaAuth(c) ==
    c.GrafanaToken = <<>> /\ ~(c.GrafanaUser # <<>> /\ c.GrafanaPass # <<>>)

\* s is the decimal numeral, with or without "+", of an integer above zero
IsPositiveInteger(s) ==
    LET ds == IF s # <<>> /\ Head(s) = "+" THEN Tail(s) ELSE s
    IN  /\ ds # <<>>
        /\ \A i \in 1..Len(ds) : ds[i] \in {"0", "1", "2", "3", "4", "5", "6", "7", "8", "9"}
        /\ \E i \in 1..Len(ds) : ds[i] # "0"

\* the Config the environment e describes, before defaults
Described(e) ==
    [ZeroConfig EXCEPT !.SSHKey = e["GIT_SSH_KEY"], !.HTTPSUser = e["GIT_HTTPS_USER"],
                       !.HTTPSPassword = e["GIT_HTTPS_PASS"],
                       !.GrafanaUser = e["GF_SECURITY_ADMIN_USER"],
                       !.GrafanaPass = e["GF_SECURITY_ADMIN_PASSWORD"],
                       !.GrafanaToken = e["GF_SECURITY_TOKEN"]]

C27_RequiredFieldsChecked ==
    cfgRet.op = "validate" =>
        /\ ( /\ cfg.GrafanaURL # <<>> /\ cfg.GrafanaToken # <<>>
             /\ cfg.RepoURL # <<>> /\ cfg.Branch # <<>>
             /\ cfg.SSHKey = <<>> /\ cfg.HTTPSUser = <<>> /\ cfg.HTTPSPassword = <<>> )
           => cfgRet.err = ""
        /\ (cfg.GrafanaURL = <<>> \/ cfg.RepoURL = <<>> \/ cfg.Branch = <<>>)
           => cfgRet.err # ""

\* validate returned an error for the Config of the test's "valid config":
\* GrafanaURL, token, RepoURL and Branch set, no Git credentials
C27_Witness ==
    /\ cfgRet.op = "validate"
    /\ cfgRet.err = "no Git authentication provided"
    /\ cfg.GrafanaURL # <<>> /\ cfg.GrafanaToken # <<>>
    /\ cfg.RepoURL # <<>> /\ cfg.Branch # <<>>
    /\ cfg.SSHKey = <<>> /\ cfg.HTTPSUser = <<>> /\ cfg.HTTPSPassword = <<>>

\* the URL carries user:password before its host
HasCredentials(url) == Contains(url, "@")

\* the token, password and SSH-key fields of Config
SecretFields == {"SSHKey", "HTTPSPassword", "GrafanaPass", "GrafanaToken"}

\* C28: in the copy SafeForLog returns every non-empty token, password and
\* SSH-key field is "***", a RepoURL that carries user:password differs
\* from the original, every other field equals the original's, and the
\* original Config is left as it was.
C28_NoSecretLeaks ==
    [](cfgRet.op = "SafeForLog" =>
          /\ \A f \in SecretFields : cfg[f] # <<>> => cfgRet.ret[f] = Masked
          /\ HasCredentials(cfg.RepoURL) => cfgRet.ret.RepoURL # cfg.RepoURL
          /\ \A f \in DOMAIN cfg \ (SecretFields \cup {"RepoURL"}) : cfgRet.ret[f] = cfg[f])
    /\ [][cfgRet'.op = "SafeForLog" => cfg' = cfg]_vars

\* SafeForLog masked the token and returned a RepoURL with user:password
\* as it was
C28_Witness ==
    /\ cfgRet.op = "SafeForLog"
    /\ cfg.GrafanaToken # <<>>
    /\ cfgRet.ret.GrafanaToken = Masked
    /\ HasCredentials(cfg.RepoURL)
    /\ cfgRet.ret.RepoURL = cfg.RepoURL

----------------------------------------------------------------------------
(* getFolderByTitle on its own: one call on any response that lists at    *)
(* most MaxListed folders, whether or not the server kept to the parent    *)
(* the request named                                                       *)

MaxListed == 3

ListedTitles == {<<"a">>, <<"b">>}

ListedParents == {"", UidOf(1), UidOf(MaxListed + 1)}

\* the lists of at most n folders; the folder at position i has the id i
RECURSIVE Listings(_)
Listings(n) ==
    IF n = 0 THEN {<<>>}
    ELSE LET shorter == Listings(n - 1)
         IN  shorter \cup
             {Append(fs, RemoteFolder(Len(fs) + 1, title, parentUid)) :
                 fs \in {l \in shorter : Len(l) = n - 1},
                 title \in ListedTitles, parentUid \in ListedParents}

\* no answer, an error status, or a list of folders
QueryResponses ==
    {[status |-> st, folders |-> <<>>] : st \in {0, 404, 500}}
        \cup {[status |-> 200, folders |-> fs] : fs \in Listings(MaxListed)}

InitQuery ==
    /\ GraphIdle /\ HashIdle /\ ServerIdle /\ ClientIdle /\ LoopIdle /\ ConfigIdle
    /\ run = "first"
    /\ called = {}
    /\ results = NoEntries
    /\ firstRun = [ok |-> FALSE, nodes |-> <<>>, folders |-> NoEntries, remote |-> <<>>]
    /\ lookups = <<>>
    /\ ResponderIdle
    /\ uploadCall = NoUpload
    /\ peer = NoPeer
    /\ chainRun = NoChainRun
    /\ \E resp \in QueryResponses, title \in ListedTitles, parentUid \in ListedParents :
          byTitle = [NoQuery EXCEPT !.resp = resp, !.title = title,
                                    !.parentUid = parentUid]

CallGetFolderByTitle ==
    /\ ~byTitle.called
    /\ byTitle' = [byTitle EXCEPT
                      !.called = TRUE,
                      !.ret = getFolderByTitle(byTitle.resp, byTitle.title,
                                               byTitle.parentUid)]
    /\ UNCHANGED <<graphVars, hashVars, serverVars, clientVars, run, called, results,
                   firstRun, lookups, responderVars, configVars, uploadCall, peer, chainRun, loopVars>>

SpecQuery == InitQuery /\ [][CallGetFolderByTitle]_vars

\* C29: getFolderByTitle returns an error for a status other than 200;
\* otherwise it returns the id and uid of the first listed folder with the
\* requested title and the requested parent ("" for a root query), and
\* (0, "", no error) when no listed folder has both.
C29_FirstTitleAndParentMatch ==
    byTitle.called =>
        LET fs == byTitle.resp.folders
            m == {i \in 1..Len(fs) : /\ fs[i].title = byTitle.title
                                     /\ fs[i].parentUid = byTitle.parentUid}
        IN  IF byTitle.resp.status # 200 THEN byTitle.ret.err
            ELSE IF m = {} THEN byTitle.ret = [id |-> 0, uid |-> "", err |-> FALSE]
            ELSE \E i \in m :
                    /\ \A k \in m : i <= k
                    /\ byTitle.ret = [id |-> fs[i].id, uid |-> fs[i].uid, err |-> FALSE]

\* three folders with the title are listed, the first under another parent
\* and two under the requested one: the second is returned
C29_Witness ==
    /\ byTitle.called
    /\ byTitle.resp.status = 200
    /\ Len(byTitle.resp.folders) = 3
    /\ \A i \in 1..3 : byTitle.resp.folders[i].title = byTitle.title
    /\ byTitle.resp.folders[1].parentUid # byTitle.parentUid
    /\ byTitle.resp.folders[2].parentUid = byTitle.parentUid
    /\ byTitle.resp.folders[3].parentUid = byTitle.parentUid
    /\ byTitle.ret = [id |-> 2, uid |-> UidOf(2), err |-> FALSE]

----------------------------------------------------------------------------
(* Creation failures                                                       *)

Creators == {"create", "odcreate"}

\* the request e, sent after the requests of log, is one at which the
\* creation of e's folder fails: a create request that was refused or got no
\* answer, or the existence query after a conflict when it fails or finds
\* nothing
CreationFails(log, e) ==
    \/ e.op \in Creators /\ e.result = "error"
    \/ /\ e.op \in {"query", "odquery"}
       /\ e.result \in {"error", "notfound"}
       /\ log # <<>>
       /\ log[Len(log)].op \in Creators
       /\ log[Len(log)].result = "conflict"
       /\ log[Len(log)].path = e.path

----------------------------------------------------------------------------
(* UploadDashboardWithVersion on its own: one call with any dashboard,     *)
(* folder id and version message, answered with any status of              *)
(* UploadAnswers or not at all                                             *)

\* the request body: a JSON object, key -> value
UploadBodyAlwaysMessage(dashboard, fid, versionMessage) ==
    [dashboard |-> dashboard, folderId |-> fid, overwrite |-> TRUE,
     message |-> versionMessage]

UploadBody(dashboard, fid, versionMessage) ==
    LET body == [dashboard |-> dashboard, folderId |-> fid, overwrite |-> TRUE]
    IN  IF versionMessage # "" THEN ("message" :> versionMessage) @@ body ELSE body

\* UploadDashboardWithVersion: the requests it sends and whether it returns
\* an error, when the server answers with status (0: client.Do fails)
UploadDashboardWithVersion(dashboard, fid, versionMessage, status) ==
    [requests |-> << [method |-> "POST", path |-> "/api/dashboards/db",
                      body |-> UploadBody(dashboard, fid, versionMessage)] >>,
     err |-> UploadResult(status) = "error"]

\* no answer, and statuses on both sides of 300
UploadAnswers == {0, 200, 201, 299, 300, 400, 404, 412, 500}

UploadFolderIDs == 0..MaxID

VersionMessages == {"", "commit c1: m - a"}

InitUpload ==
    /\ GraphIdle /\ HashIdle /\ ServerIdle /\ ClientIdle /\ LoopIdle /\ ConfigIdle
    /\ run = "first"
    /\ called = {}
    /\ results = NoEntries
    /\ firstRun = [ok |-> FALSE, nodes |-> <<>>, folders |-> NoEntries, remote |-> <<>>]
    /\ lookups = <<>>
    /\ ResponderIdle
    /\ byTitle = NoQuery
    /\ peer = NoPeer
    /\ chainRun = NoChainRun
    /\ \E dashboard \in DashboardContents, fid \in UploadFolderIDs,
          versionMessage \in VersionMessages :
          uploadCall = [NoUpload EXCEPT !.dashboard = dashboard, !.folderID = fid,
                                        !.versionMessage = versionMessage]

CallUploadDashboardWithVersion ==
    /\ ~uploadCall.called
    /\ \E status \in UploadAnswers :
          LET r == UploadDashboardWithVersion(uploadCall.dashboard, uploadCall.folderID,
                                              uploadCall.versionMessage, status)
          IN  uploadCall' = [uploadCall EXCEPT !.called = TRUE, !.status = status,
                                               !.requests = r.requests, !.err = r.err]
    /\ UNCHANGED <<graphVars, hashVars, serverVars, clientVars, run, called, results,
                   firstRun, lookups, responderVars, configVars, byTitle, peer, chainRun, loopVars>>

SpecUpload == InitUpload /\ [][CallUploadDashboardWithVersion]_vars

\* C31: an upload sends one POST; its body carries the dashboard, the folder
\* id it was given and overwrite = true, and a message exactly when the
\* version message is not empty (then that message); it returns an error
\* exactly when the request got no answer or the status is 300 or more.
C31_UploadPayload ==
    uploadCall.called =>
        /\ Len(uploadCall.requests) = 1
        /\ LET req == uploadCall.requests[1]
           IN  /\ req.method = "POST"
               /\ req.body["dashboard"] = uploadCall.dashboard
               /\ req.body["folderId"] = uploadCall.folderID
               /\ req.body["overwrite"] = TRUE
               /\ "message" \in DOMAIN req.body <=> uploadCall.versionMessage # ""
               /\ "message" \in DOMAIN req.body =>
                     req.body["message"] = uploadCall.versionMessage
               /\ DOMAIN req.body \subseteq {"dashboard", "folderId", "overwrite", "message"}
        /\ uploadCall.err <=> (uploadCall.status = 0 \/ uploadCall.status >= 300)

\* an upload without a version message was answered 299: the body has no
\* message field and no error came back
C31_Witness ==
    /\ uploadCall.called
    /\ uploadCall.versionMessage = ""
    /\ uploadCall.folderID > 0
    /\ uploadCall.status = 299
    /\ ~uploadCall.err
    /\ DOMAIN uploadCall.requests[1].body = {"dashboard", "folderId", "overwrite"}

----------------------------------------------------------------------------
(* The commit protocol of the poll loop                                    *)

\* the step is a poll cycle whose fetch failed
FetchFailed == pc = "sleep" /\ faults' # faults /\ ~health'.gitSyncHealthy

\* the step is a poll cycle whose CopyDashboards failed
CopyFailed ==
    /\ pc = "sleep" /\ pc' = "sleep"
    /\ faults' # faults
    /\ health'.gitSyncHealthy
    /\ health'.lastError = "copy"
    /\ lastPass' = lastPass

\* the step is the end of the upload loop
UploadLoopEnds == pc = "load" /\ pc' = "sleep"

\* C32: the steps of a new commit (copy, detection, pass) are taken only for
\* a fetched commit other than lastCommit, and a cycle whose fetch brought
\* such a commit takes them; lastCommit changes only to the fetched commit,
\* and only at the end of a pass or in a cycle that found no changed file; a
\* failed fetch and a failed CopyDashboards leave lastCommit as it was, and
\* after a failed CopyDashboards the commit still differs from lastCommit.
C32_CommitProtocol ==
    [][ /\ (Detects \/ CopyFailed) => commit' # lastCommit
        /\ (pc = "sleep" /\ ~FetchFailed /\ commit' # lastCommit) => (Detects \/ CopyFailed)
        /\ lastCommit' # lastCommit =>
              /\ lastCommit' = commit'
              /\ UploadLoopEnds \/ (Detects /\ changedFiles' = <<>>)
        /\ (FetchFailed \/ CopyFailed) => lastCommit' = lastCommit
        /\ CopyFailed => commit' # lastCommit'
    ]_vars

\* CopyDashboards failed for the first commit, nothing was pushed since, and
\* a later cycle started the pass for that commit
C32_Witness ==
    /\ pc = "folders"
    /\ health.lastError = "copy"
    /\ repo.n = 1
    /\ commit = CommitId(1)
    /\ lastCommit = ""
    /\ changedFiles # <<>>


\* ---------------------------------------------------------------------------
\* Cycles that send nothing to the server (main.go:93-136, 189-193)
\* ---------------------------------------------------------------------------

ServerOps == {"query", "create", "odquery", "odcreate", "upload"}

ServerRequests(log) == {i \in DOMAIN log : log[i].op \in ServerOps}

\* the cycle ends where it began, in the sleep, and has sent no folder query,
\* no folder create and no upload
Quiet ==
    /\ pc' = "sleep"
    /\ ServerRequests(reqLog') = {}
    /\ remote' = remote
    /\ nextID' = nextID
    /\ folders' = folders

\* every file of the fetched commit has its content's hash in the table
AllFingerprinted ==
    \A f \in Range(allFiles') :
        /\ f \in DOMAIN fileHashes
        /\ fileHashes[f] = computeFileHash(dashboardsDir'[f])

\* the commit after the one saved as done, with the same files and contents
SameContentCommit ==
    /\ lastCommit = CommitId(repo.n)
    /\ repo'.n = repo.n + 1
    /\ repo'.files = repo.files

\* C33 as stated: a cycle that finds no new commit, and the pass for a new
\* commit whose dashboard files have the contents of the commit before it,
\* send no request to the server.
C33_NoContentChangeNoRequests ==
    [][ pc = "sleep" =>
          /\ commit' = lastCommit => Quiet
          /\ (Detects /\ SameContentCommit) => Quiet ]_vars

\* C33: a cycle that finds no new commit, and the pass for a new commit all
\* of whose files have the hash of their content in the FingerprintTable,
\* send no folder query, no folder create and no upload; and no request is
\* sent by a cycle that stays in the sleep.
C33_NoChangeNoRequests ==
    [][ pc = "sleep" =>
          /\ commit' = lastCommit => Quiet
          /\ (Detects /\ AllFingerprinted) => Quiet
          /\ pc' = "sleep" => Quiet ]_vars

\* the second commit arrived with the contents of the first, whose pass had
\* created folders: the cycle saved it as done and the log holds no request
C33_Witness ==
    /\ pc = "sleep"
    /\ repo.n = 2
    /\ lastCommit = CommitId(2)
    /\ allFiles # <<>>
    /\ changedFiles = <<>>
    /\ lastPass.changed = <<>>
    /\ lastPass.n >= 2
    /\ \A f \in Range(allFiles) : f \in DOMAIN fileHashes
    /\ remote # <<>>
    /\ reqLog = <<>>


\* ---------------------------------------------------------------------------
\* Requests for a folder after its reconciliation failed (main.go:143-174,
\* CreateFolderTree)
\* ---------------------------------------------------------------------------

FolderOps == {"query", "create", "odquery", "odcreate"}

\* the i-th request of the log is a folder request that failed with an error
\* other than a conflict
FolderRequestFailed(log, i) ==
    /\ log[i].op \in FolderOps
    /\ log[i].result = "error"

\* C34: once a folder request of a pass has failed with a non-conflict
\* error, the pass sends no further existence query or create request for
\* that folder path.
C34_NoRetryInPass ==
    \A i \in 1..Len(reqLog) :
        FolderRequestFailed(reqLog, i) =>
            \A j \in (i + 1)..Len(reqLog) :
                ~(reqLog[j].op \in FolderOps /\ reqLog[j].path = reqLog[i].path)

\* the walk's request for a folder failed, the upload loop asked for the
\* same folder again in the same pass, found or created it, and uploaded the
\* file into it
C34_Witness ==
    \E i \in 1..Len(reqLog) : \E j \in (i + 1)..Len(reqLog) :
        /\ reqLog[i].op \in {"query", "create"}
        /\ reqLog[i].result = "error"
        /\ reqLog[j].op \in {"odquery", "odcreate"}
        /\ reqLog[j].path = reqLog[i].path
        /\ reqLog[j].result \in {"found", "created"}
        /\ \E k \in (j + 1)..Len(reqLog) :
              /\ reqLog[k].op = "upload"
              /\ reqLog[k].result = "ok"
              /\ reqLog[k].id = reqLog[j].id


\* ---------------------------------------------------------------------------
\* Two sync processes reconciling the same forest on one server
\* (CreateFolderTreeFromNode, the loop over the roots of main.go:144-151)
\* ---------------------------------------------------------------------------

\* both processes built the graph of the same files; the server holds no
\* folder, refuses a title its parent already holds and answers every request
InitRace ==
    /\ dashboardPaths \in ReconcileInputs
    /\ folderGraph = BuildFolderGraph(dashboardPaths, BaseDir)
    /\ graphBuilt = TRUE
    /\ HashIdle
    /\ remote = <<>>
    /\ nextID = 1
    /\ rejectsDuplicates = TRUE
    /\ extLeft = 0
    /\ faults = [limited |-> TRUE, left |-> 0]
    /\ ClientIdle /\ LoopIdle /\ ConfigIdle /\ ResponderIdle
    /\ run = "first"
    /\ called = {}
    /\ results = NoEntries
    /\ firstRun = [ok |-> FALSE, nodes |-> <<>>, folders |-> NoEntries, remote |-> <<>>]
    /\ lookups = <<>>
    /\ byTitle = NoQuery
    /\ uploadCall = NoUpload
    /\ chainRun = NoChainRun
    /\ peer = [NoPeer EXCEPT !.id = 2,
                             !.folderGraph = BuildFolderGraph(dashboardPaths, BaseDir)]

\* the process that was running waits, between two of its requests, and the
\* other one goes on where it stood
Yield ==
    /\ peer.id # 0
    /\ peer' = [id |-> 3 - peer.id, folderGraph |-> folderGraph, folders |-> folders,
                pending |-> pending, recPhase |-> recPhase, recRoot |-> recRoot,
                recRet |-> recRet, reqLog |-> reqLog, called |-> called,
                results |-> results]
    /\ folderGraph' = peer.folderGraph
    /\ folders' = peer.folders
    /\ pending' = peer.pending
    /\ recPhase' = peer.recPhase
    /\ recRoot' = peer.recRoot
    /\ recRet' = peer.recRet
    /\ reqLog' = peer.reqLog
    /\ called' = peer.called
    /\ results' = peer.results
    /\ UNCHANGED <<dashboardPaths, graphBuilt, hashVars, serverVars, run, firstRun,
                   lookups, responderVars, configVars, byTitle, uploadCall, chainRun,
                   loopVars>>

NextRace ==
    \/ CallRoot
    \/ ReconcileStep
    \/ RootReturned
    \/ Yield

SpecRace == InitRace /\ [][NextRace]_vars

\* a step of the process i: the scheduler switches between the processes
\* again and again, and a process that runs again and again sends its next
\* request
ProcStep(i) ==
    /\ peer.id = 3 - i
    /\ (CallRoot \/ ReconcileStep \/ RootReturned)

SpecRaceFair ==
    SpecRace /\ WF_vars(Yield) /\ SF_vars(ProcStep(1)) /\ SF_vars(ProcStep(2))

\* the loop over the roots is over in both processes
BothDone ==
    /\ peer.id # 0
    /\ recPhase = "idle" /\ recRet = "none" /\ called = Roots(folderGraph)
    /\ peer.recPhase = "idle" /\ peer.recRet = "none"
    /\ peer.called = Roots(peer.folderGraph)

OnePerTitleAndParent(rem) ==
    \A i, j \in 1..Len(rem) :
        (rem[i].title = rem[j].title /\ rem[i].parentUid = rem[j].parentUid) => i = j

\* no call has returned an error, the server holds no title twice under one
\* parent, and once both processes are through, both caches and both graphs
\* hold, for every folder path, the ID of the one server folder with its title
RacersAgree ==
    /\ recRet # "err" /\ peer.recRet # "err"
    /\ \A r \in DOMAIN results : results[r] = "ok"
    /\ \A r \in DOMAIN peer.results : peer.results[r] = "ok"
    /\ OnePerTitleAndParent(remote)
    /\ BothDone =>
          /\ folders = peer.folders
          /\ DOMAIN folders = DOMAIN folderGraph.index
          /\ Len(remote) = Cardinality(DOMAIN folderGraph.index)
          /\ \A p \in DOMAIN folderGraph.index :
                LET n == folderGraph.index[p]
                IN  /\ folderGraph.nodes[n].ID = folders[p]
                    /\ peer.folderGraph.nodes[n].ID = folders[p]
                    /\ \E i \in 1..Len(remote) :
                          /\ remote[i].id = folders[p]
                          /\ remote[i].title = folderGraph.nodes[n].Name

\* C35: two processes, each with its own cache, reconcile the same forest on
\* a server that answers every request and refuses a duplicate title: under
\* every interleaving of their requests no call returns an error, the server
\* never holds two folders with one title under one parent, both processes
\* come to the end of the forest, and then both caches and both graphs hold,
\* for every folder path, the ID of the one server folder with that title.
C35_RacersConverge == [](RacersAgree) /\ <>BothDone

\* both are through with the forest of four folders, and each of them had a
\* create request refused because the other had created the folder first
C35_Witness ==
    /\ BothDone
    /\ Cardinality(DOMAIN folders) = 4
    /\ \E i \in 1..Len(reqLog) : reqLog[i].result = "conflict"
    /\ \E i \in 1..Len(peer.reqLog) : peer.reqLog[i].result = "conflict"
    /\ folders = peer.folders


\* ---------------------------------------------------------------------------
\* last_sync_time (Checker.SetLastSync, main.go:153-188)
\* ---------------------------------------------------------------------------

\* C36: last_sync_time is advanced only at the end of a pass in which no
\* folder request and no upload failed; a pass that failed leaves it as it
\* was.
C36_LastSyncOnlyOnSuccess ==
    [][ health'.lastSyncTime # health.lastSyncTime =>
          /\ pc = "load" /\ pc' = "sleep"
          /\ GrafanaFailures(reqLog) = {}
          /\ LogPaths(reqLog, "resolve", "error") = {}
    ]_vars

\* the only changed file of the first pass could not get its folder, nothing
\* was uploaded, and the time of the last sync is the end of that pass
C36_Witness ==
    /\ pc = "sleep"
    /\ lastPass.n = 1
    /\ Len(lastPass.changed) = 1
    /\ \A f \in DOMAIN lastPass.uploads : lastPass.uploads[f] = 0
    /\ lastPass.failed # {}
    /\ \E i \in GrafanaFailures(reqLog) : reqLog[i].op \in {"odquery", "odcreate"}
    /\ health.lastSyncTime = 1


\* ---------------------------------------------------------------------------
\* The folder id of an upload (main.go:162-183, detectFolderFromPath)
\* ---------------------------------------------------------------------------

\* the clone holds /r/x, with or without the files in folders
FlatStates == UNION {[S \cup {RootFile} -> DashboardContents] : S \in SUBSET Range(RepoFiles)}

\* the loop is entered with the clone at its latest commit
InitFlat ==
    /\ repo \in {[n |-> MaxCommits, files |-> fs] : fs \in FlatStates}
    /\ lastCommit = ""
    /\ commit = ""
    /\ pc = "sleep"
    /\ dashboardsDir = NoEntries
    /\ allFiles = <<>>
    /\ changedFiles = <<>>
    /\ upIdx = 0
    /\ od = NoOd
    /\ folderID = 0
    /\ health = SetGitSyncHealth(SetGrafanaHealth(NewChecker, TRUE), TRUE)
    /\ lastPass = NoPass
    /\ remote = <<>>
    /\ nextID = 1
    /\ rejectsDuplicates \in BOOLEAN
    /\ extLeft = 0
    /\ faults = [limited |-> TRUE, left |-> MaxFaults]
    /\ GraphIdle
    /\ HashIdle
    /\ ClientIdle
    /\ DriverIdle

SpecFlat == InitFlat /\ [][Next]_vars

\* the dashboard file lies directly in the dashboards directory
InBaseDir(filePath) == Dir(filePath) = BaseDir

\* C37: an upload request for a dashboard in a folder carries a non-zero ID,
\* the one the cache holds for exactly the dashboard's folder path, which is
\* the ID of the server's folder with that title under the folder cached for
\* the parent path; an upload request for a dashboard directly in the
\* dashboards directory carries folderId 0 and no folder request is sent for
\* it, and none at all in a pass whose files all lie there.
C37_UploadFolderId ==
    /\ \A i \in 1..Len(reqLog) :
          reqLog[i].op = "upload" =>
              IF InBaseDir(reqLog[i].path)
              THEN /\ reqLog[i].id = 0
                   /\ i > 1 => reqLog[i - 1].op \notin {"odquery", "odcreate"}
              ELSE LET fp == detectFolderFromPath(reqLog[i].path, BaseDir)
                   IN  /\ fp # <<>>
                       /\ reqLog[i].id > 0
                       /\ fp \in DOMAIN folders
                       /\ folders[fp] = reqLog[i].id
                       /\ HeldFor(remote, folders, fp, reqLog[i].id)
    /\ (\A f \in Range(allFiles) : InBaseDir(f)) =>
          \A i \in 1..Len(reqLog) : reqLog[i].op \notin FolderOps

\* one pass uploaded /d/c/x into the folder the server created for c and /d/x
\* with folderId 0
C37_Witness ==
    /\ pc = "sleep"
    /\ \E i, j \in 1..Len(reqLog) :
          /\ reqLog[i].op = "upload" /\ reqLog[i].result = "ok"
          /\ reqLog[i].path = <<"/", "d", "/", "c", "/", "x">>
          /\ reqLog[i].id > 0
          /\ reqLog[j].op = "upload" /\ reqLog[j].result = "ok"
          /\ reqLog[j].path = <<"/", "d", "/", "x">>
          /\ reqLog[j].id = 0
          /\ j = i + 1


\* ---------------------------------------------------------------------------
\* CreateFolderTreeFromNode and createFolderRecursive on the same chain, from
\* the same server state
\* ---------------------------------------------------------------------------

\* the one dashboard file whose folders are the chain a, a/b or a/b/c
ChainFiles ==
    { <<"/", "d", "/", "a", "/", "x">>,
      <<"/", "d", "/", "a", "/", "b", "/", "x">>,
      <<"/", "d", "/", "a", "/", "b", "/", "c", "/", "x">> }

\* what the server holds at the start: nothing, a part of the chain, a folder
\* of the chain's title elsewhere, or one title twice
StartRemotes ==
    { <<>>,
      << RemoteFolder(1, <<"a">>, "") >>,
      << RemoteFolder(1, <<"a">>, ""), RemoteFolder(2, <<"b">>, UidOf(1)) >>,
      << RemoteFolder(1, <<"b">>, "") >>,
      << RemoteFolder(1, <<"a">>, ""), RemoteFolder(2, <<"a">>, "") >> }

InitChain ==
    /\ \E f \in ChainFiles : dashboardPaths = <<f>>
    /\ folderGraph = BuildFolderGraph(dashboardPaths, BaseDir)
    /\ graphBuilt = TRUE
    /\ HashIdle
    /\ remote \in StartRemotes
    /\ nextID = Len(remote) + 1
    /\ rejectsDuplicates \in BOOLEAN
    /\ extLeft = 0
    /\ faults = NoFaultLimit
    /\ ClientIdle /\ LoopIdle /\ ConfigIdle /\ ResponderIdle
    /\ run = "first"
    /\ called = {}
    /\ results = NoEntries
    /\ firstRun = [ok |-> FALSE, nodes |-> <<>>, folders |-> NoEntries, remote |-> <<>>]
    /\ lookups = <<>>
    /\ byTitle = NoQuery
    /\ uploadCall = NoUpload
    /\ peer = NoPeer
    /\ chainRun = [NoChainRun EXCEPT !.start = [remote |-> remote, nextID |-> nextID]]

\* CreateFolderTreeFromNode has returned for the chain's root: what it left
\* is kept, the server and the cache are put back to where they were, and the
\* upload loop is at the one file, whose folder the cache does not hold
CallOnDemand ==
    /\ ~chainRun.done
    /\ recPhase = "idle" /\ recRet = "none"
    /\ called = Roots(folderGraph)
    /\ chainRun' = [chainRun EXCEPT
                       !.done = TRUE, !.remote = remote, !.nextID = nextID,
                       !.folders = folders, !.reqLog = reqLog,
                       !.ret = results[CHOOSE r \in Roots(folderGraph) : TRUE]]
    /\ remote' = chainRun.start.remote
    /\ nextID' = chainRun.start.nextID
    /\ folders' = NoEntries
    /\ reqLog' = <<>>
    /\ allFiles' = dashboardPaths
    /\ changedFiles' = dashboardPaths
    /\ dashboardsDir' = (dashboardPaths[1] :> "{1}")
    /\ upIdx' = 1
    /\ pc' = "load"
    /\ UNCHANGED <<graphVars, hashVars, rejectsDuplicates, extLeft, faults>>
    /\ UNCHANGED <<pending, recPhase, recRoot, recRet>>
    /\ UNCHANGED <<run, called, results, firstRun, lookups, responderVars, configVars,
                   byTitle, uploadCall, peer>>
    /\ UNCHANGED <<repo, lastCommit, commit, od, folderID, health, lastPass>>

\* the upload loop's step for the file, up to the upload request
ChainUploadLoad == chainRun.done /\ upIdx = 1 /\ UploadLoad

NextChain ==
    \/ CallRoot
    \/ ReconcileStep
    \/ RootReturned
    \/ CallOnDemand
    \/ ChainUploadLoad
    \/ OdStep

SpecChain == InitChain /\ [][NextChain]_vars

\* the folder requests of createFolderRecursive, named as those of
\* CreateFolderTreeFromNode are
AsTreeRequests(log) ==
    LET reqs == SelectSeq(log, LAMBDA e : e.op \in {"odquery", "odcreate"})
    IN  [i \in 1..Len(reqs) |->
            [reqs[i] EXCEPT !.op = IF @ = "odquery" THEN "query" ELSE "create"]]

SameRequest(e1, e2) ==
    /\ e1.op = e2.op
    /\ e1.path = e2.path
    /\ e1.parentUid = e2.parentUid

\* createFolderRecursive has returned
OnDemandReturned == chainRun.done /\ (pc = "send" \/ (pc = "load" /\ upIdx = 2))

\* C38: from the same server state and with the same answers so far,
\* createFolderRecursive(path) and CreateFolderTreeFromNode on the chain
\* built from path send the same next request or both return; with the same
\* answers throughout, both leave the same server state and the same cache
\* entries, both return an error or neither does, and the folder ID returned
\* is the one cached for the path.
C38_SameRequestsAndCache ==
    chainRun.done =>
        LET tree == chainRun.reqLog
            onDemand == AsTreeRequests(reqLog)
            path == detectFolderFromPath(dashboardPaths[1], BaseDir)
        IN  /\ \A k \in 0..Len(onDemand) :
                  (k <= Len(tree) /\ SubSeq(tree, 1, k) = SubSeq(onDemand, 1, k)) =>
                      /\ k < Len(onDemand) =>
                            /\ k < Len(tree)
                            /\ SameRequest(tree[k + 1], onDemand[k + 1])
                      /\ (OnDemandReturned /\ k = Len(onDemand)) => k = Len(tree)
            /\ (OnDemandReturned /\ tree = onDemand /\ chainRun.nextID = nextID) =>
                  /\ remote = chainRun.remote
                  /\ folders = chainRun.folders
                  /\ chainRun.ret = "ok" <=> pc = "send"
                  /\ pc = "send" => /\ folderID = folders[path]
                                    /\ DOMAIN folders = DOMAIN folderGraph.index

\* both were asked for a/b/c on a server that held a only: both found a,
\* created b, and failed at the create request for c, with a and b cached
C38_Witness ==
    /\ OnDemandReturned
    /\ pc = "load"
    /\ chainRun.ret = "err"
    /\ chainRun.reqLog = AsTreeRequests(reqLog)
    /\ Len(chainRun.reqLog) = 5
    /\ chainRun.reqLog[1].result = "found"
    /\ chainRun.reqLog[3].result = "created"
    /\ chainRun.reqLog[5].op = "create"
    /\ folders = chainRun.folders
    /\ Cardinality(DOMAIN folders) = 2
    /\ remote = chainRun.remote


\* ---------------------------------------------------------------------------
\* The cache when CreateFolderTreeFromNode has returned without error
\* ---------------------------------------------------------------------------

\* the nodes of the tree below the root
TreeNodes(graph, root) ==
    {n \in GraphNodes(graph) :
        TreeOf(graph.nodes[n].FullPath) = graph.nodes[root].FullPath}

\* the call for the root returns without error in this step
ReturnsOk == recRet = "none" /\ recRet' = "ok"

\* C39 as stated: when CreateFolderTreeFromNode returns without error for a
\* root, for every node of the root's tree the cache entry, the node's ID
\* and the ID of the server's folder with the node's title under the parent
\* are equal; and no step removes a cache entry.
C39_CacheFreshAfterReturn ==
    [][ /\ DOMAIN folders \subseteq DOMAIN folders'
        /\ ReturnsOk =>
              \A n \in TreeNodes(folderGraph', recRoot') :
                  LET node == folderGraph'.nodes[n]
                  IN  /\ node.FullPath \in DOMAIN folders'
                      /\ folders'[node.FullPath] = node.ID
                      /\ HeldFor(remote', folders', node.FullPath, node.ID)
    ]_vars

\* C39: when CreateFolderTreeFromNode returns without error for a root, for
\* every node of the root's tree the cache entry equals the node's ID, which
\* is not 0, whatever the cache held before; and unless another client has
\* deleted the folder since the run found or created it, it is the ID of the
\* server's folder with the node's title under the parent. No step removes
\* a cache entry.
C39_CacheFreshUnlessDeleted ==
    [][ /\ DOMAIN folders \subseteq DOMAIN folders'
        /\ ReturnsOk =>
              \A n \in TreeNodes(folderGraph', recRoot') :
                  LET node == folderGraph'.nodes[n]
                  IN  /\ node.FullPath \in DOMAIN folders'
                      /\ folders'[node.FullPath] = node.ID
                      /\ node.ID > 0
                      /\ node.ID \in RemoteIds(remote') =>
                            HeldFor(remote', folders', node.FullPath, node.ID)
    ]_vars

\* the second run has returned without error for the root; a folder the
\* first run had cached was deleted in between, and the cache now holds the
\* ID of the folder the second run created in its place
C39_Witness ==
    /\ run = "second"
    /\ recRet = "ok"
    /\ \E p \in DOMAIN firstRun.folders :
          /\ firstRun.folders[p] \notin RemoteIds(remote)
          /\ p \in DOMAIN folders
          /\ folders[p] # firstRun.folders[p]
          /\ NodeAt(p).ID = folders[p]
          /\ HeldFor(remote, folders, p, folders[p])
    /\ \A p \in DOMAIN folders : HeldFor(remote, folders, p, folders[p])

====
